---- MODULE Spec2Model ----
(***************************************************************************)
(* Authorization and invitation engine of the Kanban API.                  *)
(*                                                                         *)
(* The persistent store is modelled as one variable per collection.  The   *)
(* specifications share the variables:                                     *)
(*   Spec      the invitation ledger: inviteUserToOrganization and         *)
(*             register, split at their store accesses (every await is a   *)
(*             suspension point), the clock and MongoDB's TTL monitor;     *)
(*   SpecRace  the same ledger with one more invite call and one register  *)
(*             call less;                                                  *)
(*   SpecHier  the project controller and the removal and update of        *)
(*             organization members: a request is received, then served    *)
(*             by one action per handler;                                  *)
(*   SpecTask  updateTask of the task controller, served the same way;     *)
(*   SpecPerm  the permission functions, asked about the stored users and  *)
(*             organizations, the unauthenticated update of a user and     *)
(*             getProjects;                                                *)
(*   SpecWork  createTask, deleteTask, updateTask and removeMember;        *)
(*   SpecCollab  comments, updateTaskStatus, the move of a task, the       *)
(*             views of tasks, comments and boards, the update of a user;  *)
(*   SpecBoard  assignProject, addMember, updateBoard and sendBoardInvite; *)
(*   SpecRemove  the ledger and removeMemberFromOrganization;              *)
(*   SpecDelete  deleteProject, deleteBoard and deleteOrganization;        *)
(*   SpecOwner  updateMember, removeMemberFromOrganization and the         *)
(*             unauthenticated update and deletion of a user;              *)
(*   SpecRetry  the ledger with registrations that fail after the user     *)
(*             has been saved;                                             *)
(*   SpecNotify  createTask, updateTask, updateTaskStatus and              *)
(*             sendBoardInvite with their push and mail notifications;     *)
(*   SpecMove  updateTask and deleteProject.                               *)
(***************************************************************************)
EXTENDS Integers, Sequences, FiniteSets, TLC

\* ------------------------------------------------------------------ bounds
MaxTime == 1
MaxInviteCalls == 2
MaxRegCalls == 2
\* invite calls of SpecRace: one call to store an invitation, two to race on it
MaxRaceCalls == 3
\* requests of SpecHier that write (getProjects is not counted)
MaxProjOps == 3
\* requests of SpecTask
MaxTaskOps == 2

\* -------------------------------------------------------- program constants
\* 7 * 24 * 60 * 60 * 1000 ms; the clock of the model counts weeks
InviteTTL == 1
\* const maxRetries = 3
maxRetries == 3

OrgIds == {"oA", "oB"}
\* ObjectIds and tokens are numbered in the order of their creation; every
\* invite call stores at most one document and one token, every register call
\* at most one user
UserIds == 1..(2 + MaxRegCalls)
MaxCalls == IF MaxRaceCalls > MaxInviteCalls THEN MaxRaceCalls ELSE MaxInviteCalls
InvIds == 1..MaxCalls
Tokens == 1..MaxCalls
InvProcs == {"i1", "i2"}
RegProcs == {"r1", "r2"}

NoUser == [email |-> <<>>, organization |-> "none", role |-> "none", regToken |-> 0]
NoInv == [organization |-> "none", invitedBy |-> 0, invitedEmail |-> <<>>,
          memberId |-> 0, status |-> "none", role |-> "none",
          invitationToken |-> 0, tokenExpiresAt |-> 0]

\* enum of userSchema.role
UserRoleEnum == {"owner", "admin", "member"}

\* request inputs
RawEmails == { <<"b", "@">>, <<" ", "B", "@">>, <<"b">> }
RegEmails == { <<"b", "@">>, <<"c", "@">> }
RoleInputs == {"member", "manager"}

\* ------------------------------------------- projects, boards and tasks
ProjIds == 1..(IF MaxProjOps > 2 THEN MaxProjOps ELSE 2)
BoardIds == 1..3
TaskIds == {1}

\* members is project.members seen as user -> project role; the handlers keep
\* at most one entry per user
NoProject == [organization |-> "none", createdBy |-> 0,
              members |-> [u \in UserIds |-> "none"], name |-> "", description |-> ""]
\* a board: its project, its owner and board.members
NoBoard == [project |-> 0, owner |-> 0, members |-> {}]
NoTask == [board |-> 0, createdBy |-> 0, assignedTo |-> {}, title |-> "",
           description |-> "", priority |-> "", attachment |-> ""]

\* comments of tasks: author 0 for an id that holds no comment
CommentIds == {1}
NoComment == [task |-> 0, author |-> 0, text |-> <<>>]

\* enum of projectSchema.members.role
ProjectRoleEnum == {"admin", "member"}

\* req.body of updateTask and req.file; "undefined" is an absent field, board 0
\* an absent board, hasAssignedTo whether assignedTo is present
NoBody == [title |-> "undefined", description |-> "undefined", comments |-> "undefined",
           hasAssignedTo |-> FALSE, assignedTo |-> {}, board |-> 0,
           priority |-> "undefined", file |-> FALSE]

\* a request as the router hands it to a handler: req.user.id (actor),
\* req.params.id (id), req.params.userId or req.body.userId (userId) and the
\* rest of req.body: text of a comment, members of a board
NoReq == [op |-> "none", actor |-> 0, id |-> 0, userId |-> 0, role |-> "none",
          name |-> "", description |-> "undefined", body |-> NoBody, text |-> <<>>,
          hasMembers |-> FALSE, members |-> {}]

\* a notification handed to sendPushToUser or to the mail service: the
\* operation that hands it over and whether the service delivers it
NoDispatch == [op |-> "none", delivered |-> FALSE]

\* the response: the request it answers, its status and, for getProjects, the
\* ids of the projects listed
NoResp == [req |-> NoReq, status |-> "none", list |-> {}]

\* the requests of the project controller and of the member administration
ProjRequests ==
  {[NoReq EXCEPT !.op = "createProject", !.actor = a, !.name = "n0", !.description = "d0"] :
      a \in UserIds}
  \cup {[NoReq EXCEPT !.op = "updateProject", !.actor = a, !.id = p, !.name = n,
                       !.description = d] :
      a \in UserIds, p \in ProjIds, n \in {"", "n1"}, d \in {"undefined", "d1"}}
  \cup {[NoReq EXCEPT !.op = o, !.actor = a, !.id = p] :
      o \in {"deleteProject"}, a \in UserIds, p \in ProjIds}
  \cup {[NoReq EXCEPT !.op = o, !.actor = a, !.id = p, !.userId = t] :
      o \in {"assignProject", "addMember", "removeMember"},
      a \in UserIds, p \in ProjIds, t \in UserIds}
  \cup {[NoReq EXCEPT !.op = "updateMemberRole", !.actor = a, !.id = p, !.userId = t,
                       !.role = r] :
      a \in UserIds, p \in ProjIds, t \in UserIds, r \in {"admin", "member", "lead"}}
  \cup {[NoReq EXCEPT !.op = "removeMemberFromOrganization", !.actor = a, !.userId = t] :
      a \in UserIds, t \in UserIds}
  \cup {[NoReq EXCEPT !.op = "updateMember", !.actor = a, !.userId = t, !.role = r] :
      a \in UserIds, t \in UserIds, r \in {"admin", "member", "manager"}}
  \cup {[NoReq EXCEPT !.op = "getProjects", !.actor = a] : a \in UserIds}

VARIABLES now, orgs, users, nextUser, invs, nextInv, nextTok, inv, reg,
          inviteCalls, regCalls,
          projects, nextProj, boards, tasks, req, resp, ops,
          nextTask, comments, nextComment, dispatch

vars == <<now, orgs, users, nextUser, invs, nextInv, nextTok, inv, reg,
          inviteCalls, regCalls, projects, nextProj, boards, tasks, req, resp, ops,
          nextTask, comments, nextComment, dispatch>>

\* the comments, the counters behind the ids of tasks and comments, the
\* notification handed to the push or mail service
work == <<nextTask, comments, nextComment, dispatch>>

\* the collections and the request of the project and task controllers
hier == <<projects, nextProj, boards, tasks, req, resp, ops, work>>

\* the invitations, the clock and the requests of the ledger
ledger == <<now, nextUser, nextInv, nextTok, inv, reg, inviteCalls, regCalls>>

\* ------------------------------------------------------------ string helpers
LowerChar(c) == IF c = "B" THEN "b" ELSE IF c = "C" THEN "c" ELSE c

\* String.prototype.toLowerCase
toLowerCase(s) == [i \in DOMAIN s |-> LowerChar(s[i])]

RECURSIVE TrimLeft(_)
TrimLeft(s) == IF s # <<>> /\ Head(s) = " " THEN TrimLeft(Tail(s)) ELSE s

RECURSIVE TrimRight(_)
TrimRight(s) ==
  IF s # <<>> /\ s[Len(s)] = " " THEN TrimRight(SubSeq(s, 1, Len(s) - 1)) ELSE s

\* String.prototype.trim
trim(s) == TrimRight(TrimLeft(s))

\* String.prototype.includes('@')
includesAt(s) == \E i \in DOMAIN s : s[i] = "@"

\* const normalizedEmail = email.toLowerCase().trim()
normalizedEmail(email) == trim(toLowerCase(email))

\* ------------------------------------------------------------- permissions
\* getUserRole without the comparison of organization.owner with the user
getUserRoleStored(u, o) ==
  IF users[u] = NoUser \/ ~orgs[o].exists THEN "null" ELSE users[u].role

\* getUserRole(user, organization), on the stored documents
getUserRole(u, o) ==
  IF users[u] = NoUser \/ ~orgs[o].exists THEN "null"
  ELSE IF orgs[o].owner # 0 /\ orgs[o].owner = u THEN "owner"
  ELSE users[u].role

isOwner(u, o) == getUserRole(u, o) = "owner"

\* isAdminOrOwner that lets the manager pass
isAdminOrOwnerOrManager(u, o) == getUserRole(u, o) \in {"owner", "admin", "manager"}

isAdminOrOwner(u, o) == getUserRole(u, o) \in {"owner", "admin"}

isManagerOrAbove(u, o) == getUserRole(u, o) \in {"owner", "admin", "manager"}

canInviteUser(u, o) == isAdminOrOwner(u, o)

\* ----------------------------------------------------------- store queries
\* User.findOne({ email, organization })
UserByEmailOrg(e, o) ==
  {u \in UserIds : users[u] # NoUser /\ users[u].email = e /\ users[u].organization = o}

\* OrganizationInvitation.findOne({ organization, invitedEmail })
InvByOrgEmail(o, e) ==
  {i \in InvIds : invs[i] # NoInv /\ invs[i].organization = o /\ invs[i].invitedEmail = e}

\* OrganizationInvitation.findOne({ invitationToken })
InvByToken(t) == {i \in InvIds : invs[i] # NoInv /\ invs[i].invitationToken = t}

LiveInvByTokenNoExpiry(t) == {i \in InvByToken(t) : invs[i].status = "invited"}

\* { invitationToken, status: 'invited', tokenExpiresAt: { $gt: new Date() } }
LiveInvByToken(t) ==
  {i \in InvByToken(t) : invs[i].status = "invited" /\ invs[i].tokenExpiresAt > now}

\* request slots are taken lowest first: a request takes a slot only when the
\* slots before it are busy
Busy(c) == c.pc \notin {"idle", "done"}

FreeInvSlot(p) == ~Busy(inv[p]) /\ (p = "i2" => Busy(inv["i1"]))

FreeRegSlot(p) == ~Busy(reg[p]) /\ (p = "r2" => Busy(reg["r1"]))

\* a request slot of inviteUserToOrganization: the handler's locals (raw is
\* req.body.email, email is normalizedEmail, snap is existingInvitation as
\* loaded), the response (res, token) and, for the properties, whether the
\* lookup was made while another call for the same pair stood between its own
\* lookup and its save (raced)
IdleInv == [pc |-> "idle", actor |-> 0, org |-> "none", raw |-> <<>>, email |-> <<>>,
            role |-> "none", existing |-> 0, readTok |-> 0, snap |-> NoInv,
            retries |-> 0, raced |-> FALSE, res |-> "none", token |-> 0]

\* the response of an invite call; the request's locals are dropped with it,
\* a success keeps what the properties read
InvDone(c, res, tok) ==
  IF res = "ok"
  THEN [IdleInv EXCEPT !.pc = "done", !.res = res, !.token = tok, !.org = c.org,
                       !.email = c.email, !.existing = c.existing,
                       !.readTok = c.readTok, !.raced = c.raced]
  ELSE IF res = "AlreadyInvited"
  THEN [IdleInv EXCEPT !.pc = "done", !.res = res, !.org = c.org, !.raw = c.raw]
  ELSE [IdleInv EXCEPT !.pc = "done", !.res = res]

IdleReg == [pc |-> "idle", email |-> <<>>, token |-> 0, org |-> "none", role |-> "none",
            user |-> 0, res |-> "none"]

\* the response of a register call
RegDone(c, res) ==
  IF res = "UserExists" THEN [IdleReg EXCEPT !.pc = "done", !.res = res]
  ELSE [IdleReg EXCEPT !.pc = "done", !.res = res, !.token = c.token, !.org = c.org,
                       !.role = c.role, !.user = c.user]

\* ------------------------------------------------------------------- Init
Init ==
  /\ now = 0
  /\ orgs = [o \in OrgIds |-> IF o = "oA" THEN [exists |-> TRUE, owner |-> 1]
                               ELSE [exists |-> FALSE, owner |-> 0]]
  /\ users = [u \in UserIds |->
               IF u = 1 THEN [email |-> <<"o", "@">>, organization |-> "oA",
                              role |-> "owner", regToken |-> 0]
               ELSE IF u = 2 THEN [email |-> <<"a", "@">>, organization |-> "oA",
                                   role |-> "admin", regToken |-> 0]
               ELSE NoUser]
  /\ nextUser = 3
  /\ invs = [i \in InvIds |-> NoInv]
  /\ nextInv = 1
  /\ nextTok = 1
  /\ inv = [p \in InvProcs |-> IdleInv]
  /\ reg = [p \in RegProcs |-> IdleReg]
  /\ inviteCalls = 0
  /\ regCalls = 0
  /\ projects = [p \in ProjIds |-> NoProject]
  /\ nextProj = 1
  /\ boards = [b \in BoardIds |-> NoBoard]
  /\ tasks = [t \in TaskIds |-> NoTask]
  /\ req = NoReq
  /\ resp = NoResp
  /\ ops = 0
  /\ nextTask = 1
  /\ comments = [c \in CommentIds |-> NoComment]
  /\ nextComment = 1
  /\ dispatch = NoDispatch

\* -------------------------------------------------------------- environment
\* the wall clock read by new Date() / Date.now()
\* (one unit is the invitation lifetime; a request is served within a unit)
Tick ==
  /\ now < MaxTime
  /\ \A p \in InvProcs : ~Busy(inv[p])
  /\ \A p \in RegProcs : ~Busy(reg[p])
  /\ now' = now + 1
  /\ UNCHANGED <<orgs, users, nextUser, invs, nextInv, nextTok, inv, reg, inviteCalls, regCalls>>
  /\ UNCHANGED hier

\* index({ tokenExpiresAt: 1 }, { expireAfterSeconds: 0 }): the TTL monitor
\* deletes a document whose tokenExpiresAt has passed
TTLReap(i) ==
  /\ invs[i] # NoInv
  /\ invs[i].tokenExpiresAt <= now
  /\ invs' = [invs EXCEPT ![i] = NoInv]
  /\ UNCHANGED <<now, orgs, users, nextUser, nextInv, nextTok, inv, reg, inviteCalls, regCalls>>
  /\ UNCHANGED hier

\* ------------------------------------------- inviteUserToOrganization
\* body validation, User.findById(req.user.id), Organization.findById,
\* canInviteUser and existingUser = User.findOne({ email: normalizedEmail,
\* organization }): the reads of the users and organizations
InviteBegin(p, actor, raw, role, maxCalls) ==
  /\ FreeInvSlot(p)
  /\ inviteCalls < maxCalls
  /\ inviteCalls' = inviteCalls + 1
  /\ LET o == IF users[actor] = NoUser THEN "none" ELSE users[actor].organization
         \* role && ['member','manager','admin'].includes(role) ? role : 'member'
         invitedRole == IF role \in {"member", "manager", "admin"} THEN role ELSE "member"
         call == [IdleInv EXCEPT !.actor = actor, !.org = o, !.role = invitedRole,
                                 !.raw = raw, !.email = normalizedEmail(raw)]
     IN inv' = [inv EXCEPT ![p] =
          IF ~includesAt(raw) THEN InvDone(call, "BadEmail", 0)
          ELSE IF users[actor] = NoUser \/ ~orgs[o].exists
            THEN InvDone(call, "NotFound", 0)
          ELSE IF ~canInviteUser(actor, o) THEN InvDone(call, "Forbidden", 0)
          ELSE IF UserByEmailOrg(call.email, o) # {} THEN InvDone(call, "UserInOrg", 0)
          ELSE [call EXCEPT !.pc = "findInv"]]
  /\ UNCHANGED <<now, orgs, users, nextUser, invs, nextInv, nextTok, reg, regCalls>>
  /\ UNCHANGED hier

PendingUnexpiredBackwards(d, t) == d.status = "invited" /\ d.tokenExpiresAt < t

\* existingInvitation.status === 'invited' && tokenExpiresAt > new Date()
PendingUnexpired(d, t) == d.status = "invited" /\ d.tokenExpiresAt > t

\* status === 'declined' || status === 'accepted' || tokenExpiresAt <= new Date()
Recyclable(d, t) == d.status \in {"declined", "accepted"} \/ d.tokenExpiresAt <= t

\* another call for the same pair has made its lookup and not yet saved
PeerBetweenLookupAndSave(p) ==
  \E q \in InvProcs \ {p} :
    /\ inv[q].pc \in {"recheck", "recycle", "create"}
    /\ inv[q].org = inv[p].org /\ inv[q].email = inv[p].email

\* existingInvitation = await OrganizationInvitation.findOne({ organization,
\* invitedEmail }) and the decisions taken on the document read
InviteFindInv(p) ==
  /\ inv[p].pc = "findInv"
  /\ LET found == InvByOrgEmail(inv[p].org, inv[p].email)
         me == [inv[p] EXCEPT !.raced = PeerBetweenLookupAndSave(p)]
     IN IF found = {}
        THEN inv' = [inv EXCEPT ![p] = [me EXCEPT !.pc = "create", !.retries = 0]]
        ELSE \E i \in found :
          LET d == invs[i]
              c == [me EXCEPT !.existing = i, !.readTok = d.invitationToken, !.snap = d]
          IN inv' = [inv EXCEPT ![p] =
               IF PendingUnexpired(d, now) THEN InvDone(c, "AlreadyInvited", 0)
               ELSE IF d.status = "accepted" THEN [c EXCEPT !.pc = "recheck"]
               ELSE IF Recyclable(d, now) THEN [c EXCEPT !.pc = "recycle"]
               ELSE [c EXCEPT !.pc = "create", !.retries = 0]]
  /\ UNCHANGED <<now, orgs, users, nextUser, invs, nextInv, nextTok, reg, inviteCalls, regCalls>>
  /\ UNCHANGED hier

\* accepted invitation: const userStillExists = await User.findOne(...); without
\* the user the loaded document is set to 'declined' and falls to the recycle
\* path
InviteRecheck(p) ==
  /\ inv[p].pc = "recheck"
  /\ inv' = [inv EXCEPT ![p] =
       IF UserByEmailOrg(inv[p].email, inv[p].org) # {}
       THEN InvDone(inv[p], "UserInOrg", 0)
       ELSE IF Recyclable([inv[p].snap EXCEPT !.status = "declined"], now)
       THEN [@ EXCEPT !.pc = "recycle"]
       ELSE [@ EXCEPT !.pc = "create", !.retries = 0]]
  /\ UNCHANGED <<now, orgs, users, nextUser, invs, nextInv, nextTok, reg, inviteCalls, regCalls>>
  /\ UNCHANGED hier

\* document.save() of a loaded document: $set of the paths whose value differs
\* from the value loaded
SaveModified(stored, loaded, doc) ==
  [f \in DOMAIN doc |-> IF doc[f] # loaded[f] THEN doc[f] ELSE stored[f]]

RecycledDocOldToken(loaded, actor, role, tok, t) ==
  [loaded EXCEPT !.status = "invited", !.invitedBy = actor,
                 !.tokenExpiresAt = t + InviteTTL, !.memberId = 0, !.role = role]

\* the recycled document as assigned before existingInvitation.save()
RecycledDoc(loaded, actor, role, tok, t) ==
  [loaded EXCEPT !.status = "invited", !.invitedBy = actor,
                 !.invitationToken = tok, !.tokenExpiresAt = t + InviteTTL,
                 !.memberId = 0, !.role = role]

\* the recycle path: new token and expiry, status reset, save, response
InviteRecycleSave(p) ==
  /\ inv[p].pc = "recycle"
  /\ LET i == inv[p].existing
         doc == RecycledDoc(inv[p].snap, inv[p].actor, inv[p].role, nextTok, now)
     IN IF invs[i] = NoInv
        THEN \* DocumentNotFoundError, answered 500
             /\ inv' = [inv EXCEPT ![p] = InvDone(inv[p], "ServerError", 0)]
             /\ UNCHANGED <<invs, nextTok>>
        ELSE /\ invs' = [invs EXCEPT ![i] = SaveModified(invs[i], inv[p].snap, doc)]
             /\ inv' = [inv EXCEPT ![p] = InvDone(inv[p], "ok", nextTok)]
             /\ nextTok' = nextTok + 1
  /\ UNCHANGED <<now, orgs, users, nextUser, nextInv, reg, inviteCalls, regCalls>>
  /\ UNCHANGED hier

\* unique indexes { invitationToken } and { organization, invitedEmail }
DuplicateKey(doc) ==
  \E j \in InvIds :
    /\ invs[j] # NoInv
    /\ \/ invs[j].invitationToken = doc.invitationToken
       \/ (invs[j].organization = doc.organization /\ invs[j].invitedEmail = doc.invitedEmail)

\* one iteration of the create loop: new OrganizationInvitation(...).save().
\* crypto.randomBytes(32) is a token never issued before; the token of a
\* document whose save fails is never stored nor returned, so the numbering
\* advances on a successful save only
InviteCreateSave(p) ==
  /\ inv[p].pc = "create"
  /\ LET doc == [organization |-> inv[p].org, invitedBy |-> inv[p].actor,
                 invitedEmail |-> inv[p].email, memberId |-> 0, status |-> "invited",
                 role |-> inv[p].role, invitationToken |-> nextTok,
                 tokenExpiresAt |-> now + InviteTTL]
     IN IF DuplicateKey(doc)
        THEN /\ inv' = [inv EXCEPT ![p] =
                  IF inv[p].retries < maxRetries - 1
                  THEN [@ EXCEPT !.retries = @ + 1]
                  ELSE InvDone(inv[p], "Conflict", 0)]
             /\ UNCHANGED <<invs, nextInv, nextTok>>
        ELSE /\ invs' = [invs EXCEPT ![nextInv] = doc]
             /\ nextInv' = nextInv + 1
             /\ inv' = [inv EXCEPT ![p] = InvDone(inv[p], "ok", nextTok)]
             /\ nextTok' = nextTok + 1
  /\ UNCHANGED <<now, orgs, users, nextUser, reg, inviteCalls, regCalls>>
  /\ UNCHANGED hier

\* ------------------------------------------------------------- register
\* OrganizationInvitation.findOne({ invitationToken, status: 'invited',
\* tokenExpiresAt: { $gt: new Date() } }), then
\* User.findOne({ email: email.toLowerCase(), organization: organizationId })
RegFindInvitation(p, email, token, maxCalls) ==
  /\ FreeRegSlot(p)
  /\ regCalls < maxCalls
  /\ regCalls' = regCalls + 1
  /\ LET found == LiveInvByToken(token)
         call == [IdleReg EXCEPT !.email = toLowerCase(email), !.token = token]
     IN IF found = {}
        THEN reg' = [reg EXCEPT ![p] = RegDone(call, "InvalidOrExpired")]
        ELSE \E i \in found :
          LET invitedRole == invs[i].role
              c == [call EXCEPT !.org = invs[i].organization,
                      !.role = IF invitedRole \in {"owner", "admin", "manager", "member"}
                               THEN invitedRole ELSE "member"]
          IN reg' = [reg EXCEPT ![p] =
               IF UserByEmailOrg(c.email, c.org) # {} THEN RegDone(c, "UserExists")
               ELSE [c EXCEPT !.pc = "saveUser"]]
  /\ UNCHANGED <<now, orgs, users, nextUser, invs, nextInv, nextTok, inv, inviteCalls>>
  /\ UNCHANGED hier

\* schema validation run by user.save(): role must be in the enum
ValidUser(doc) == doc.role \in UserRoleEnum

\* user.save(): validation, then the insert under the unique index
\* { email, organization }
RegSaveUser(p) ==
  /\ reg[p].pc = "saveUser"
  /\ LET doc == [email |-> reg[p].email, organization |-> reg[p].org,
                 role |-> reg[p].role, regToken |-> reg[p].token]
     IN IF ~ValidUser(doc)
        THEN \* ValidationError is re-thrown and answered 500
             /\ reg' = [reg EXCEPT ![p] = RegDone(reg[p], "ServerError")]
             /\ UNCHANGED <<users, nextUser>>
        ELSE IF UserByEmailOrg(doc.email, doc.organization) # {}
        THEN \* E11000
             /\ reg' = [reg EXCEPT ![p] = RegDone(reg[p], "UserExists")]
             /\ UNCHANGED <<users, nextUser>>
        ELSE /\ users' = [users EXCEPT ![nextUser] = doc]
             /\ nextUser' = nextUser + 1
             /\ reg' = [reg EXCEPT ![p] = [@ EXCEPT !.pc = "markAccepted", !.user = nextUser]]
  /\ UNCHANGED <<now, orgs, invs, nextInv, nextTok, inv, inviteCalls, regCalls>>
  /\ UNCHANGED hier

\* OrganizationInvitation.findOneAndUpdate({ invitationToken },
\*   { memberId, status: 'accepted', acceptedAt }) and the response
RegMarkAccepted(p) ==
  /\ reg[p].pc = "markAccepted"
  /\ invs' = [i \in InvIds |->
        IF i \in InvByToken(reg[p].token)
        THEN [invs[i] EXCEPT !.memberId = reg[p].user, !.status = "accepted"]
        ELSE invs[i]]
  /\ reg' = [reg EXCEPT ![p] = RegDone(reg[p], "ok")]
  /\ UNCHANGED <<now, orgs, users, nextUser, nextInv, nextTok, inv, inviteCalls, regCalls>>
  /\ UNCHANGED hier

\* --------------------------------------------------------------- Next
Ledger(maxCalls, maxRegCalls) ==
  \/ Tick
  \/ \E i \in InvIds : TTLReap(i)
  \/ \E p \in InvProcs, a \in UserIds, e \in RawEmails, r \in RoleInputs :
       InviteBegin(p, a, e, r, maxCalls)
  \/ \E p \in InvProcs : InviteFindInv(p)
  \/ \E p \in InvProcs : InviteRecheck(p)
  \/ \E p \in InvProcs : InviteRecycleSave(p)
  \/ \E p \in InvProcs : InviteCreateSave(p)
  \/ \E p \in RegProcs, e \in RegEmails, t \in 0..(nextTok - 1) :
       RegFindInvitation(p, e, t, maxRegCalls)
  \/ \E p \in RegProcs : RegSaveUser(p)
  \/ \E p \in RegProcs : RegMarkAccepted(p)

Next == Ledger(MaxInviteCalls, MaxRegCalls)

Spec == Init /\ [][Next]_vars

\* the ledger with one more invite call and one register call less
NextRace == Ledger(MaxRaceCalls, MaxRegCalls - 1)

SpecRace == Init /\ [][NextRace]_vars

\* ================================================== project controller
\* the state of SpecHier after construction: organization oA with its owner,
\* an admin and a member, organization oB with its owner, no project
HierInit ==
  /\ now = 0
  /\ orgs = [o \in OrgIds |-> [exists |-> TRUE, owner |-> IF o = "oA" THEN 1 ELSE 4]]
  /\ users = [u \in UserIds |->
               IF u = 1 THEN [email |-> <<"o", "@">>, organization |-> "oA",
                              role |-> "owner", regToken |-> 0]
               ELSE IF u = 2 THEN [email |-> <<"a", "@">>, organization |-> "oA",
                                   role |-> "admin", regToken |-> 0]
               ELSE IF u = 3 THEN [email |-> <<"b", "@">>, organization |-> "oA",
                                   role |-> "member", regToken |-> 0]
               ELSE IF u = 4 THEN [email |-> <<"o", "@">>, organization |-> "oB",
                                   role |-> "owner", regToken |-> 0]
               ELSE NoUser]
  /\ nextUser = 5
  /\ invs = [i \in InvIds |-> NoInv]
  /\ nextInv = 1
  /\ nextTok = 1
  /\ inv = [p \in InvProcs |-> IdleInv]
  /\ reg = [p \in RegProcs |-> IdleReg]
  /\ inviteCalls = 0
  /\ regCalls = 0
  /\ projects = [p \in ProjIds |-> NoProject]
  /\ nextProj = 1
  /\ boards = [b \in BoardIds |-> NoBoard]
  /\ tasks = [t \in TaskIds |-> NoTask]
  /\ req = NoReq
  /\ resp = NoResp
  /\ ops = 0
  /\ nextTask = 1
  /\ comments = [c \in CommentIds |-> NoComment]
  /\ nextComment = 1
  /\ dispatch = NoDispatch

\* the response has been sent: the next request is taken
Sent ==
  /\ req = NoReq
  /\ resp # NoResp
  /\ resp' = NoResp
  /\ UNCHANGED <<orgs, users, invs, projects, nextProj, boards, tasks, req, ops>>
  /\ UNCHANGED <<ledger, work>>

\* the router hands a request to its handler
ReceiveProj(r) ==
  /\ req = NoReq
  /\ resp = NoResp
  /\ r.op = "getProjects" \/ ops < MaxProjOps
  /\ ops' = IF r.op = "getProjects" THEN ops ELSE ops + 1
  /\ req' = r
  /\ UNCHANGED <<orgs, users, invs, projects, nextProj, boards, tasks, resp>>
  /\ UNCHANGED <<ledger, work>>

\* res.status(...).json(...)
Answer(status, list) ==
  /\ resp' = [req |-> req, status |-> status, list |-> list]
  /\ req' = NoReq
  /\ UNCHANGED ops

\* the organization of the requesting user
OrgOf(u) == users[u].organization

\* project.members.some((m) => m.user.toString() === req.user.id && m.role === 'admin')
isProjectAdmin(p, u) == projects[p].members[u] = "admin"

canCreateProject(u, o) == isManagerOrAbove(u, o)

canAssignProject(u, o) == isManagerOrAbove(u, o)

\* the checks shared by updateProject, deleteProject, addMember, removeMember
\* and updateMemberRole, in the order of the code; req.user of a deleted user
\* is null and the handler throws
GuardStatus(p, u) ==
  IF users[u] = NoUser THEN "ServerError"
  ELSE IF projects[p] = NoProject THEN "NotFound"
  ELSE IF ~orgs[OrgOf(u)].exists THEN "NotFound"
  ELSE IF ~isProjectAdmin(p, u) /\ ~isAdminOrOwner(u, OrgOf(u)) THEN "Forbidden"
  ELSE "ok"

\* the checks of the target user without the refusal of a user who is already
\* in the member list
TargetStatusAnyUser(p, u, t) ==
  IF users[t] = NoUser THEN "NotFound"
  ELSE IF users[t].organization # OrgOf(u) THEN "BadRequest"
  ELSE "ok"

\* the checks of the target user made by assignProject and addMember
TargetStatus(p, u, t) ==
  IF users[t] = NoUser THEN "NotFound"
  ELSE IF users[t].organization # OrgOf(u) THEN "BadRequest"
  ELSE IF projects[p].members[t] # "none" THEN "Conflict"
  ELSE "ok"

createProject ==
  /\ req.op = "createProject"
  /\ LET u == req.actor
         st == IF users[u] = NoUser THEN "ServerError"
               ELSE IF ~orgs[OrgOf(u)].exists THEN "NotFound"
               ELSE IF ~canCreateProject(u, OrgOf(u)) THEN "Forbidden"
               ELSE "ok"
     IN /\ Answer(st, {})
        /\ IF st = "ok"
           THEN /\ projects' = [projects EXCEPT ![nextProj] =
                      [organization |-> OrgOf(u), createdBy |-> u,
                       members |-> [m \in UserIds |-> IF m = u THEN "admin" ELSE "none"],
                       name |-> req.name, description |-> req.description]]
                /\ nextProj' = nextProj + 1
           ELSE UNCHANGED <<projects, nextProj>>
  /\ UNCHANGED <<orgs, users, invs, boards, tasks>>
  /\ UNCHANGED <<ledger, work>>

updateProject ==
  /\ req.op = "updateProject"
  /\ LET p == req.id
         st == GuardStatus(p, req.actor)
     IN /\ Answer(st, {})
        /\ projects' = IF st # "ok" THEN projects
             ELSE [projects EXCEPT
                     \* name || project.name
                     ![p].name = IF req.name # "" THEN req.name ELSE @,
                     ![p].description =
                        IF req.description # "undefined" THEN req.description ELSE @]
  /\ UNCHANGED <<orgs, users, invs, nextProj, boards, tasks>>
  /\ UNCHANGED <<ledger, work>>

\* Board.deleteMany({ project }), then Project.findByIdAndDelete
deleteProject ==
  /\ req.op = "deleteProject"
  /\ LET p == req.id
         st == GuardStatus(p, req.actor)
     IN /\ Answer(st, {})
        /\ projects' = IF st # "ok" THEN projects ELSE [projects EXCEPT ![p] = NoProject]
        /\ boards' = IF st # "ok" THEN boards
             ELSE [b \in BoardIds |-> IF boards[b].project = p THEN NoBoard ELSE boards[b]]
  /\ UNCHANGED <<orgs, users, invs, nextProj, tasks>>
  /\ UNCHANGED <<ledger, work>>

assignProject ==
  /\ req.op = "assignProject"
  /\ LET u == req.actor
         p == req.id
         t == req.userId
         st == IF users[u] = NoUser THEN "ServerError"
               ELSE IF ~orgs[OrgOf(u)].exists THEN "NotFound"
               ELSE IF projects[p] = NoProject THEN "NotFound"
               ELSE IF ~canAssignProject(u, OrgOf(u)) THEN "Forbidden"
               ELSE TargetStatus(p, u, t)
     IN /\ Answer(st, {})
        /\ projects' = IF st # "ok" THEN projects
                       ELSE [projects EXCEPT ![p].members[t] = "member"]
  /\ UNCHANGED <<orgs, users, invs, nextProj, boards, tasks>>
  /\ UNCHANGED <<ledger, work>>

addMember ==
  /\ req.op = "addMember"
  /\ LET u == req.actor
         p == req.id
         t == req.userId
         st == IF GuardStatus(p, u) # "ok" THEN GuardStatus(p, u)
               ELSE TargetStatus(p, u, t)
     IN /\ Answer(st, {})
        /\ projects' = IF st # "ok" THEN projects
                       ELSE [projects EXCEPT ![p].members[t] = "member"]
  /\ UNCHANGED <<orgs, users, invs, nextProj, boards, tasks>>
  /\ UNCHANGED <<ledger, work>>

isCreatorNever(p, t) == FALSE

\* project.createdBy.toString() === req.params.userId
isCreator(p, t) == projects[p].createdBy = t

removeMember ==
  /\ req.op = "removeMember"
  /\ LET u == req.actor
         p == req.id
         t == req.userId
         st == IF GuardStatus(p, u) # "ok" THEN GuardStatus(p, u)
               ELSE IF isCreator(p, t) THEN "Conflict"
               ELSE "ok"
     IN /\ Answer(st, {})
        /\ projects' = IF st # "ok" THEN projects
                       ELSE [projects EXCEPT ![p].members[t] = "none"]
  /\ UNCHANGED <<orgs, users, invs, nextProj, boards, tasks>>
  /\ UNCHANGED <<ledger, work>>

\* memberToUpdate.role = role; project.save() validates the role
updateMemberRole ==
  /\ req.op = "updateMemberRole"
  /\ LET u == req.actor
         p == req.id
         t == req.userId
         st == IF GuardStatus(p, u) # "ok" THEN GuardStatus(p, u)
               ELSE IF isCreator(p, t) THEN "Conflict"
               ELSE IF projects[p].members[t] = "none" THEN "NotFound"
               ELSE IF req.role \notin ProjectRoleEnum THEN "ServerError"
               ELSE "ok"
     IN /\ Answer(st, {})
        /\ projects' = IF st # "ok" THEN projects
                       ELSE [projects EXCEPT ![p].members[t] = req.role]
  /\ UNCHANGED <<orgs, users, invs, nextProj, boards, tasks>>
  /\ UNCHANGED <<ledger, work>>

\* Project.find({ organization }) of getProjects
OrgProjects(o) == {p \in ProjIds : projects[p] # NoProject /\ projects[p].organization = o}

\* populate('createdBy') or populate('members.user') of a deleted user gives
\* null, and the listing that getProjects logs reads p.createdBy._id and
\* m.user.toString() of every project found
DanglingUserRef(p) ==
  \/ users[projects[p].createdBy] = NoUser
  \/ \E m \in UserIds : projects[p].members[m] # "none" /\ users[m] = NoUser

\* the filter of getProjects, on the stored user.role
Accessible(p, u) ==
  \/ users[u].role = "owner" \/ users[u].role = "admin"
  \/ projects[p].createdBy = u
  \/ projects[p].members[u] # "none"

getProjects ==
  /\ req.op = "getProjects"
  /\ LET u == req.actor
         st == IF users[u] = NoUser THEN "ServerError"
               ELSE IF \E p \in OrgProjects(OrgOf(u)) : DanglingUserRef(p) THEN "ServerError"
               ELSE "ok"
     IN Answer(st, IF st = "ok" THEN {p \in OrgProjects(OrgOf(u)) : Accessible(p, u)} ELSE {})
  /\ UNCHANGED <<orgs, users, invs, projects, nextProj, boards, tasks>>
  /\ UNCHANGED <<ledger, work>>

\* the removal without the deleteMany of the invitations
removeMemberFromOrganizationKeepsInvitations ==
  /\ req.op = "removeMemberFromOrganization"
  /\ LET u == req.actor
         t == req.userId
         st == IF users[u] = NoUser THEN "ServerError"
               ELSE IF ~orgs[OrgOf(u)].exists THEN "NotFound"
               ELSE IF ~isOwner(u, OrgOf(u)) THEN "Forbidden"
               ELSE IF orgs[OrgOf(u)].owner = t THEN "BadRequest"
               ELSE IF users[t] = NoUser \/ users[t].organization # OrgOf(u) THEN "NotFound"
               ELSE "ok"
     IN /\ Answer(st, {})
        /\ users' = IF st # "ok" THEN users ELSE [users EXCEPT ![t] = NoUser]
  /\ UNCHANGED <<orgs, invs, projects, nextProj, boards, tasks>>
  /\ UNCHANGED <<ledger, work>>

\* User.findByIdAndDelete(memberId), then OrganizationInvitation.deleteMany of
\* the invitations of the organization that name the member's email or id
removeMemberFromOrganization ==
  /\ req.op = "removeMemberFromOrganization"
  /\ LET u == req.actor
         t == req.userId
         st == IF users[u] = NoUser THEN "ServerError"
               ELSE IF ~orgs[OrgOf(u)].exists THEN "NotFound"
               ELSE IF ~isOwner(u, OrgOf(u)) THEN "Forbidden"
               ELSE IF orgs[OrgOf(u)].owner = t THEN "BadRequest"
               ELSE IF users[t] = NoUser \/ users[t].organization # OrgOf(u) THEN "NotFound"
               ELSE "ok"
     IN /\ Answer(st, {})
        /\ users' = IF st # "ok" THEN users ELSE [users EXCEPT ![t] = NoUser]
        /\ invs' = IF st # "ok" THEN invs
             ELSE [i \in InvIds |->
                     IF /\ invs[i].organization = OrgOf(u)
                        /\ \/ invs[i].invitedEmail = toLowerCase(users[t].email)
                           \/ invs[i].memberId = t
                     THEN NoInv ELSE invs[i]]
  /\ UNCHANGED <<orgs, projects, nextProj, boards, tasks>>
  /\ UNCHANGED <<ledger, work>>

\* member.role = role; member.save() validates the role
updateMember ==
  /\ req.op = "updateMember"
  /\ LET u == req.actor
         t == req.userId
         st == IF users[u] = NoUser THEN "ServerError"
               ELSE IF ~orgs[OrgOf(u)].exists THEN "NotFound"
               ELSE IF ~isOwner(u, OrgOf(u)) THEN "Forbidden"
               ELSE IF req.role \notin {"admin", "manager", "member"} THEN "BadRequest"
               ELSE IF users[t] = NoUser \/ users[t].organization # OrgOf(u) THEN "NotFound"
               ELSE IF orgs[OrgOf(u)].owner = t /\ req.role # "owner" THEN "BadRequest"
               ELSE IF ~ValidUser([users[t] EXCEPT !.role = req.role]) THEN "ServerError"
               ELSE "ok"
     IN /\ Answer(st, {})
        /\ users' = IF st # "ok" THEN users ELSE [users EXCEPT ![t].role = req.role]
  /\ UNCHANGED <<orgs, invs, projects, nextProj, boards, tasks>>
  /\ UNCHANGED <<ledger, work>>

HierNext ==
  \/ \E r \in ProjRequests : ReceiveProj(r)
  \/ Sent
  \/ createProject
  \/ updateProject
  \/ deleteProject
  \/ assignProject
  \/ addMember
  \/ removeMember
  \/ updateMemberRole
  \/ getProjects
  \/ removeMemberFromOrganization
  \/ updateMember

SpecHier == HierInit /\ [][HierNext]_vars

\* ===================================================== task controller
\* the requests of updateTask
\* assignedTo of a request: absent, or a list of one user
AssignedToInputs == {<<FALSE, {}>>, <<TRUE, {3}>>, <<TRUE, {4}>>}

\* the description of a request is always absent: every test and assignment
\* of the handler treats it as it treats the title
TaskBodies ==
  {[title |-> t, description |-> "undefined", comments |-> c, hasAssignedTo |-> a[1],
    assignedTo |-> a[2], board |-> b, priority |-> pr, file |-> f] :
     t \in {"undefined", "t1"}, c \in {"undefined", "c1"},
     a \in AssignedToInputs, b \in {0, 2, 3},
     pr \in {"undefined", "high"}, f \in BOOLEAN}

TaskRequests ==
  {[NoReq EXCEPT !.op = "updateTask", !.actor = a, !.id = t, !.body = b] :
     a \in UserIds, t \in TaskIds, b \in TaskBodies}

\* the state of SpecTask after construction, as createProject, addMember,
\* createBoard and createTask leave it: organization oA with its owner (1) and
\* two members (2, 3), organization oB with its owner (4); project 1 of oA with
\* members 1, 2 and 3 and boards 1 and 2, project 2 of oA with board 3; task 1
\* on board 1, assigned to member 2
TaskInit ==
  /\ now = 0
  /\ orgs = [o \in OrgIds |-> [exists |-> TRUE, owner |-> IF o = "oA" THEN 1 ELSE 4]]
  /\ users = [u \in UserIds |->
               IF u = 1 THEN [email |-> <<"o", "@">>, organization |-> "oA",
                              role |-> "owner", regToken |-> 0]
               ELSE IF u = 2 THEN [email |-> <<"a", "@">>, organization |-> "oA",
                                   role |-> "member", regToken |-> 0]
               ELSE IF u = 3 THEN [email |-> <<"b", "@">>, organization |-> "oA",
                                   role |-> "member", regToken |-> 0]
               ELSE IF u = 4 THEN [email |-> <<"o", "@">>, organization |-> "oB",
                                   role |-> "owner", regToken |-> 0]
               ELSE NoUser]
  /\ nextUser = 5
  /\ invs = [i \in InvIds |-> NoInv]
  /\ nextInv = 1
  /\ nextTok = 1
  /\ inv = [p \in InvProcs |-> IdleInv]
  /\ reg = [p \in RegProcs |-> IdleReg]
  /\ inviteCalls = 0
  /\ regCalls = 0
  /\ projects = [p \in ProjIds |->
       IF p = 1 THEN [organization |-> "oA", createdBy |-> 1,
                      members |-> [u \in UserIds |-> IF u = 1 THEN "admin"
                                                     ELSE IF u \in {2, 3} THEN "member"
                                                     ELSE "none"],
                      name |-> "n0", description |-> "d0"]
       ELSE IF p = 2 THEN [organization |-> "oA", createdBy |-> 1,
                           members |-> [u \in UserIds |-> IF u = 1 THEN "admin" ELSE "none"],
                           name |-> "n0", description |-> "d0"]
       ELSE NoProject]
  /\ nextProj = 3
  /\ boards = [b \in BoardIds |-> [project |-> IF b = 3 THEN 2 ELSE 1, owner |-> 1,
                                   members |-> {1}]]
  /\ tasks = [t \in TaskIds |-> [board |-> 1, createdBy |-> 1, assignedTo |-> {2},
                                 title |-> "t0", description |-> "d0",
                                 priority |-> "medium", attachment |-> ""]]
  /\ req = NoReq
  /\ resp = NoResp
  /\ ops = 0
  /\ nextTask = 2
  /\ comments = [c \in CommentIds |-> NoComment]
  /\ nextComment = 1
  /\ dispatch = NoDispatch

ReceiveTask(r) ==
  /\ req = NoReq
  /\ resp = NoResp
  /\ ops < MaxTaskOps
  /\ ops' = ops + 1
  /\ req' = r
  /\ UNCHANGED <<orgs, users, invs, projects, nextProj, boards, tasks, resp>>
  /\ UNCHANGED <<ledger, work>>

\* ObjectId.prototype.toString: the hexadecimal id
ObjectIdToString(id) == <<"id", id>>

\* Document.prototype.toString: the inspection of the document, never its id
DocumentToString(id) == <<"doc", id>>

\* task.assignedTo after .populate("assignedTo", "name email"): the documents
\* of the assignees that exist
PopulatedAssignedTo(t) == {u \in tasks[t].assignedTo : users[u] # NoUser}

\* isMember(user, organization)
isMember(u, o) == users[u].organization = o \/ getUserRole(u, o) # "null"

\* canUpdateTask(user, organization, task), task.assignedTo being populated
canUpdateTask(u, o, t) ==
  /\ isMember(u, o)
  /\ \/ isManagerOrAbove(u, o)
     \/ \E a \in PopulatedAssignedTo(t) : DocumentToString(a) = ObjectIdToString(u)

\* a check of the member list that everybody passes
isProjectMemberAlways(p, u) == TRUE

\* project.members.some((m) => (m.user._id || m.user).toString() === req.user.id)
isProjectMember(p, u) == projects[p].members[u] # "none"

isOnlyBoardChange(t, b) ==
  /\ b.board # 0 /\ b.board # tasks[t].board
  /\ b.title = "undefined" /\ b.description = "undefined" /\ b.comments = "undefined"
  /\ ~b.hasAssignedTo

isOnlyCommentChange(b) ==
  /\ b.comments # "undefined"
  /\ b.title = "undefined" /\ b.description = "undefined" /\ ~b.hasAssignedTo
  /\ b.board = 0 /\ b.priority = "undefined"

\* the checks of updateTask without the comparison of the new board's project
\* with the project of the current board
UpdateTaskStatusAnyProject(t, u, b) ==
  IF tasks[t] = NoTask THEN "NotFound"
  ELSE IF users[u] = NoUser THEN "ServerError"
  \* task.board is populated: null for a deleted board, and task.board._id throws
  ELSE IF boards[tasks[t].board] = NoBoard THEN "ServerError"
  ELSE LET p == boards[tasks[t].board].project
           o == OrgOf(u)
       IN IF projects[p] = NoProject THEN "NotFound"
          ELSE IF ~orgs[o].exists THEN "NotFound"
          ELSE IF projects[p].organization # o THEN "Forbidden"
          ELSE IF (isOnlyBoardChange(t, b) \/ isOnlyCommentChange(b))
                  /\ ~isProjectMember(p, u) /\ users[u].role \notin {"owner", "admin"}
            THEN "Forbidden"
          ELSE IF ~(isOnlyBoardChange(t, b) \/ isOnlyCommentChange(b))
                  /\ ~canUpdateTask(u, o, t)
            THEN "Forbidden"
          ELSE IF b.board # 0 /\ b.board # tasks[t].board /\ boards[b.board] = NoBoard
            THEN "NotFound"
          ELSE IF b.board # 0 /\ b.board # tasks[t].board
                  /\ projects[boards[b.board].project] = NoProject
            THEN "NotFound"
          ELSE IF b.hasAssignedTo /\ \E a \in b.assignedTo : ~isProjectMember(p, a)
            THEN "BadRequest"
          ELSE "ok"

\* the status of an updateTask request, the checks in the order of the code
UpdateTaskStatus(t, u, b) ==
  IF tasks[t] = NoTask THEN "NotFound"
  ELSE IF users[u] = NoUser THEN "ServerError"
  \* task.board is populated: null for a deleted board, and task.board._id throws
  ELSE IF boards[tasks[t].board] = NoBoard THEN "ServerError"
  ELSE LET p == boards[tasks[t].board].project
           o == OrgOf(u)
       IN IF projects[p] = NoProject THEN "NotFound"
          ELSE IF ~orgs[o].exists THEN "NotFound"
          ELSE IF projects[p].organization # o THEN "Forbidden"
          ELSE IF (isOnlyBoardChange(t, b) \/ isOnlyCommentChange(b))
                  /\ ~isProjectMember(p, u) /\ users[u].role \notin {"owner", "admin"}
            THEN "Forbidden"
          ELSE IF ~(isOnlyBoardChange(t, b) \/ isOnlyCommentChange(b))
                  /\ ~canUpdateTask(u, o, t)
            THEN "Forbidden"
          ELSE IF b.board # 0 /\ b.board # tasks[t].board /\ boards[b.board] = NoBoard
            THEN "NotFound"
          ELSE IF b.board # 0 /\ b.board # tasks[t].board
                  /\ projects[boards[b.board].project] = NoProject
            THEN "NotFound"
          ELSE IF b.board # 0 /\ b.board # tasks[t].board /\ boards[b.board].project # p
            THEN "BadRequest"
          ELSE IF b.hasAssignedTo /\ \E a \in b.assignedTo : ~isProjectMember(p, a)
            THEN "BadRequest"
          ELSE "ok"

\* Task.findByIdAndUpdate(id, { $set: updateData }); comments is not a path of
\* taskSchema and the strict update drops it
UpdatedTask(d, b) ==
  [d EXCEPT !.title = IF b.title # "undefined" THEN b.title ELSE @,
            !.description = IF b.description # "undefined" THEN b.description ELSE @,
            !.assignedTo = IF b.hasAssignedTo THEN b.assignedTo ELSE @,
            !.board = IF b.board # 0 THEN b.board ELSE @,
            !.priority = IF b.priority # "undefined" THEN b.priority ELSE @,
            !.attachment = IF b.file THEN "f1" ELSE @]

updateTask ==
  /\ req.op = "updateTask"
  /\ LET t == req.id
         st == UpdateTaskStatus(t, req.actor, req.body)
     IN /\ Answer(st, {})
        /\ tasks' = IF st # "ok" THEN tasks
                    ELSE [tasks EXCEPT ![t] = UpdatedTask(tasks[t], req.body)]
  /\ UNCHANGED <<orgs, users, invs, projects, nextProj, boards>>
  /\ UNCHANGED <<ledger, work>>

TaskNext ==
  \/ \E r \in TaskRequests : ReceiveTask(r)
  \/ Sent
  \/ updateTask

SpecTask == TaskInit /\ [][TaskNext]_vars

\* ===================================================== permission functions
\* the remaining rows of the permission matrix
canDeleteOrg(u, o) == isOwner(u, o)

canDeleteUser(u, o) == isOwner(u, o)

canUpdateUser(u, o) == isAdminOrOwner(u, o)

canCreateBoard(u, o) == isManagerOrAbove(u, o)

canCreateTask(u, o) == isMember(u, o)

\* canDeleteTask that asks for membership of the organization only
canDeleteTaskAnyMember(u, o) == isMember(u, o)

canDeleteTask(u, o) == isManagerOrAbove(u, o)

\* the exported predicates, by name
PermissionNames ==
  {"isMember", "canDeleteOrg", "canInviteUser", "canDeleteUser", "canUpdateUser",
   "canCreateProject", "canAssignProject", "canCreateBoard", "canCreateTask",
   "canDeleteTask"}

Grants(f, u, o) ==
  IF f = "isMember" THEN isMember(u, o)
  ELSE IF f = "canDeleteOrg" THEN canDeleteOrg(u, o)
  ELSE IF f = "canInviteUser" THEN canInviteUser(u, o)
  ELSE IF f = "canDeleteUser" THEN canDeleteUser(u, o)
  ELSE IF f = "canUpdateUser" THEN canUpdateUser(u, o)
  ELSE IF f = "canCreateProject" THEN canCreateProject(u, o)
  ELSE IF f = "canAssignProject" THEN canAssignProject(u, o)
  ELSE IF f = "canCreateBoard" THEN canCreateBoard(u, o)
  ELSE IF f = "canCreateTask" THEN canCreateTask(u, o)
  ELSE canDeleteTask(u, o)

\* the roles that PUT /users/:id can store: findByIdAndUpdate runs no
\* validator, so the enum of userSchema.role does not hold them back
StoredRoles == {"owner", "admin", "manager", "member"}

\* the state of SpecPerm after construction, as createOrganization, register
\* and createProject leave it: organization oA with its owner (1), an admin
\* (2) and a member (3), organization oB with its owner (4); project 1 of oA
\* created by the admin with the member added, project 2 of oA created by the
\* owner
PermInit ==
  /\ now = 0
  /\ orgs = [o \in OrgIds |-> [exists |-> TRUE, owner |-> IF o = "oA" THEN 1 ELSE 4]]
  /\ users = [u \in UserIds |->
               IF u = 1 THEN [email |-> <<"o", "@">>, organization |-> "oA",
                              role |-> "owner", regToken |-> 0]
               ELSE IF u = 2 THEN [email |-> <<"a", "@">>, organization |-> "oA",
                                   role |-> "admin", regToken |-> 0]
               ELSE IF u = 3 THEN [email |-> <<"b", "@">>, organization |-> "oA",
                                   role |-> "member", regToken |-> 0]
               ELSE IF u = 4 THEN [email |-> <<"o", "@">>, organization |-> "oB",
                                   role |-> "owner", regToken |-> 0]
               ELSE NoUser]
  /\ nextUser = 5
  /\ invs = [i \in InvIds |-> NoInv]
  /\ nextInv = 1
  /\ nextTok = 1
  /\ inv = [p \in InvProcs |-> IdleInv]
  /\ reg = [p \in RegProcs |-> IdleReg]
  /\ inviteCalls = 0
  /\ regCalls = 0
  /\ projects = [p \in ProjIds |->
       IF p = 1 THEN [organization |-> "oA", createdBy |-> 2,
                      members |-> [u \in UserIds |-> IF u = 2 THEN "admin"
                                                     ELSE IF u = 3 THEN "member"
                                                     ELSE "none"],
                      name |-> "n0", description |-> "d0"]
       ELSE IF p = 2 THEN [organization |-> "oA", createdBy |-> 1,
                           members |-> [u \in UserIds |-> IF u = 1 THEN "admin" ELSE "none"],
                           name |-> "n0", description |-> "d0"]
       ELSE NoProject]
  /\ nextProj = 3
  /\ boards = [b \in BoardIds |-> NoBoard]
  /\ tasks = [t \in TaskIds |-> NoTask]
  /\ req = NoReq
  /\ resp = NoResp
  /\ ops = 0
  /\ nextTask = 1
  /\ comments = [c \in CommentIds |-> NoComment]
  /\ nextComment = 1
  /\ dispatch = NoDispatch

\* PUT /users/:id with a role in the body: no authentication, and
\* User.findByIdAndUpdate(id, { name, email, role }) without validators; name
\* and email are absent from the body and left as they are
updateUserById(id, role) ==
  /\ req = NoReq
  /\ resp = NoResp
  /\ users' = IF users[id] = NoUser THEN users ELSE [users EXCEPT ![id].role = role]
  /\ resp' = [req |-> [NoReq EXCEPT !.op = "updateUserById", !.userId = id, !.role = role],
              status |-> IF users[id] = NoUser THEN "BadRequest" ELSE "ok",
              list |-> {}]
  /\ UNCHANGED <<orgs, invs, projects, nextProj, boards, tasks, req, ops>>
  /\ UNCHANGED <<ledger, work>>

\* a handler loads the user (u) and an organization (o) and asks the
\* permission functions: the answer holds the role that getUserRole returns
\* and the names of the predicates that return true
CheckPermissions(u, o) ==
  /\ req = NoReq
  /\ resp = NoResp
  /\ resp' = [req |-> [NoReq EXCEPT !.op = "permissions", !.actor = u, !.name = o],
              status |-> getUserRole(u, o),
              list |-> {f \in PermissionNames : Grants(f, u, o)}]
  /\ UNCHANGED <<orgs, users, invs, projects, nextProj, boards, tasks, req, ops>>
  /\ UNCHANGED <<ledger, work>>

PermNext ==
  \/ \E id \in UserIds, role \in StoredRoles : updateUserById(id, role)
  \/ \E u \in UserIds, o \in OrgIds : CheckPermissions(u, o)
  \/ \E r \in {x \in ProjRequests : x.op = "getProjects"} : ReceiveProj(r)
  \/ getProjects
  \/ Sent

SpecPerm == PermInit /\ [][PermNext]_vars

\* ================================================= creation and deletion of tasks
\* requests of SpecWork that the router takes
MaxWorkOps == 3

\* the requests of SpecWork: createTask with or without a board, a title and
\* assignees, deleteTask, updateTask of the assignees, removeMember
WorkRequests ==
  {[NoReq EXCEPT !.op = "createTask", !.actor = a,
                 !.body = [NoBody EXCEPT !.board = b, !.title = t,
                                         !.hasAssignedTo = as[1], !.assignedTo = as[2]]] :
      a \in UserIds, b \in {0, 1}, t \in {"undefined", "t1"}, as \in AssignedToInputs}
  \cup {[NoReq EXCEPT !.op = "deleteTask", !.actor = a, !.id = t] :
      a \in UserIds, t \in TaskIds}
  \cup {[NoReq EXCEPT !.op = "updateTask", !.actor = a, !.id = t,
                       !.body = [NoBody EXCEPT !.hasAssignedTo = as[1],
                                               !.assignedTo = as[2]]] :
      a \in UserIds, t \in TaskIds, as \in AssignedToInputs \ {<<FALSE, {}>>}}
  \cup {[NoReq EXCEPT !.op = "removeMember", !.actor = a, !.id = 1, !.userId = t] :
      a \in UserIds, t \in UserIds}

\* the state of SpecWork after construction, as createProject, addMember and
\* createBoard leave it: organization oA with its owner (1) and two members
\* (2, 3), organization oB with its owner (4); project 1 of oA, created by the
\* owner, with member 3 and boards 1 and 2; project 2 of oA with board 3; no
\* task
WorkInit ==
  /\ now = 0
  /\ orgs = [o \in OrgIds |-> [exists |-> TRUE, owner |-> IF o = "oA" THEN 1 ELSE 4]]
  /\ users = [u \in UserIds |->
               IF u = 1 THEN [email |-> <<"o", "@">>, organization |-> "oA",
                              role |-> "owner", regToken |-> 0]
               ELSE IF u = 2 THEN [email |-> <<"a", "@">>, organization |-> "oA",
                                   role |-> "member", regToken |-> 0]
               ELSE IF u = 3 THEN [email |-> <<"b", "@">>, organization |-> "oA",
                                   role |-> "member", regToken |-> 0]
               ELSE IF u = 4 THEN [email |-> <<"o", "@">>, organization |-> "oB",
                                   role |-> "owner", regToken |-> 0]
               ELSE NoUser]
  /\ nextUser = 5
  /\ invs = [i \in InvIds |-> NoInv]
  /\ nextInv = 1
  /\ nextTok = 1
  /\ inv = [p \in InvProcs |-> IdleInv]
  /\ reg = [p \in RegProcs |-> IdleReg]
  /\ inviteCalls = 0
  /\ regCalls = 0
  /\ projects = [p \in ProjIds |->
       IF p = 1 THEN [organization |-> "oA", createdBy |-> 1,
                      members |-> [u \in UserIds |-> IF u = 1 THEN "admin"
                                                     ELSE IF u = 3 THEN "member"
                                                     ELSE "none"],
                      name |-> "n0", description |-> "d0"]
       ELSE IF p = 2 THEN [organization |-> "oA", createdBy |-> 1,
                           members |-> [u \in UserIds |-> IF u = 1 THEN "admin" ELSE "none"],
                           name |-> "n0", description |-> "d0"]
       ELSE NoProject]
  /\ nextProj = 3
  /\ boards = [b \in BoardIds |-> [project |-> IF b = 3 THEN 2 ELSE 1, owner |-> 1,
                                   members |-> {1}]]
  /\ tasks = [t \in TaskIds |-> NoTask]
  /\ req = NoReq
  /\ resp = NoResp
  /\ ops = 0
  /\ nextTask = 1
  /\ comments = [c \in CommentIds |-> NoComment]
  /\ nextComment = 1
  /\ dispatch = NoDispatch

\* the router hands a request to its handler; a task is created while an id
\* of TaskIds is left
ReceiveWork(r) ==
  /\ req = NoReq
  /\ resp = NoResp
  /\ ops < MaxWorkOps
  /\ r.op = "createTask" => nextTask \in TaskIds
  /\ ops' = ops + 1
  /\ req' = r
  /\ UNCHANGED <<orgs, users, invs, projects, nextProj, boards, tasks, resp>>
  /\ UNCHANGED <<ledger, work>>

\* the status of a createTask request, the checks in the order of the code;
\* the title is required by taskSchema and newTask.save() rejects its absence
CreateTaskStatus(u, b) ==
  IF b.board = 0 THEN "BadRequest"
  ELSE IF users[u] = NoUser THEN "ServerError"
  ELSE IF boards[b.board] = NoBoard THEN "NotFound"
  ELSE LET p == boards[b.board].project
           o == OrgOf(u)
       IN IF projects[p] = NoProject THEN "NotFound"
          ELSE IF ~orgs[o].exists THEN "NotFound"
          ELSE IF projects[p].organization # o THEN "Forbidden"
          ELSE IF ~canCreateTask(u, o) THEN "Forbidden"
          ELSE IF b.hasAssignedTo /\ \E a \in b.assignedTo : ~isProjectMember(p, a)
            THEN "BadRequest"
          ELSE IF b.title = "undefined" THEN "ServerError"
          ELSE "ok"

\* new Task({ title, description, board, assignedTo: assignedTo || [],
\* createdBy: req.user.id, priority: priority || 'medium', attachment })
NewTask(u, b) ==
  [board |-> b.board, createdBy |-> u,
   assignedTo |-> IF b.hasAssignedTo THEN b.assignedTo ELSE {},
   title |-> b.title,
   description |-> IF b.description = "undefined" THEN "" ELSE b.description,
   priority |-> IF b.priority = "undefined" THEN "medium" ELSE b.priority,
   attachment |-> IF b.file THEN "f1" ELSE ""]

createTask ==
  /\ req.op = "createTask"
  /\ LET st == CreateTaskStatus(req.actor, req.body)
     IN /\ Answer(st, {})
        /\ tasks' = IF st # "ok" THEN tasks
                    ELSE [tasks EXCEPT ![nextTask] = NewTask(req.actor, req.body)]
        /\ nextTask' = IF st # "ok" THEN nextTask ELSE nextTask + 1
  /\ UNCHANGED <<orgs, users, invs, projects, nextProj, boards, comments, nextComment,
                 dispatch>>
  /\ UNCHANGED ledger

\* the status of a deleteTask request, the checks in the order of the code
DeleteTaskStatus(t, u) ==
  IF users[u] = NoUser THEN "ServerError"
  ELSE IF tasks[t] = NoTask THEN "NotFound"
  ELSE IF boards[tasks[t].board] = NoBoard THEN "NotFound"
  ELSE LET p == boards[tasks[t].board].project
           o == OrgOf(u)
       IN IF projects[p] = NoProject THEN "NotFound"
          ELSE IF ~orgs[o].exists THEN "NotFound"
          ELSE IF projects[p].organization # o THEN "Forbidden"
          ELSE IF ~canDeleteTask(u, o) THEN "Forbidden"
          ELSE "ok"

\* Task.findByIdAndDelete(req.params.id)
deleteTask ==
  /\ req.op = "deleteTask"
  /\ LET st == DeleteTaskStatus(req.id, req.actor)
     IN /\ Answer(st, {})
        /\ tasks' = IF st # "ok" THEN tasks ELSE [tasks EXCEPT ![req.id] = NoTask]
  /\ UNCHANGED <<orgs, users, invs, projects, nextProj, boards>>
  /\ UNCHANGED <<ledger, work>>

WorkNext ==
  \/ \E r \in WorkRequests : ReceiveWork(r)
  \/ Sent
  \/ createTask
  \/ deleteTask
  \/ updateTask
  \/ removeMember

SpecWork == WorkInit /\ [][WorkNext]_vars

\* ===================================== comments, task status and the views
\* requests of SpecCollab that the router takes
MaxCollabOps == 3

\* req.body.text of createComment and of updateComment
CommentTexts == { <<" ">>, <<"c", " ">> }

\* the requests of SpecCollab
CollabRequests ==
  {[NoReq EXCEPT !.op = o, !.actor = a, !.id = 1] :
      o \in {"updateTaskStatus", "getTasksByBoard", "getBoardsByProject",
             "getCommentsByTask", "deleteComment"},
      a \in UserIds}
  \cup {[NoReq EXCEPT !.op = o, !.actor = a, !.id = 1, !.text = t] :
      o \in {"createComment", "updateComment"}, a \in UserIds, t \in CommentTexts}
  \cup {[NoReq EXCEPT !.op = "updateTask", !.actor = a, !.id = 1,
                       !.body = [NoBody EXCEPT !.board = 2]] :
      a \in UserIds}

\* the state of SpecCollab after construction, as createOrganization, register,
\* createProject, addMember, createBoard and createTask leave it: organization
\* oA with its owner (1), an admin (2) and two members (3, 4); project 1 of
\* oA, created by the admin, with member 3 and boards 1 and 2; task 1 on
\* board 1; no comment
CollabInit ==
  /\ now = 0
  /\ orgs = [o \in OrgIds |-> [exists |-> o = "oA", owner |-> IF o = "oA" THEN 1 ELSE 0]]
  /\ users = [u \in UserIds |->
               IF u = 1 THEN [email |-> <<"o", "@">>, organization |-> "oA",
                              role |-> "owner", regToken |-> 0]
               ELSE IF u = 2 THEN [email |-> <<"a", "@">>, organization |-> "oA",
                                   role |-> "admin", regToken |-> 0]
               ELSE IF u = 3 THEN [email |-> <<"b", "@">>, organization |-> "oA",
                                   role |-> "member", regToken |-> 0]
               ELSE IF u = 4 THEN [email |-> <<"c", "@">>, organization |-> "oA",
                                   role |-> "member", regToken |-> 0]
               ELSE NoUser]
  /\ nextUser = 5
  /\ invs = [i \in InvIds |-> NoInv]
  /\ nextInv = 1
  /\ nextTok = 1
  /\ inv = [p \in InvProcs |-> IdleInv]
  /\ reg = [p \in RegProcs |-> IdleReg]
  /\ inviteCalls = 0
  /\ regCalls = 0
  /\ projects = [p \in ProjIds |->
       IF p = 1 THEN [organization |-> "oA", createdBy |-> 2,
                      members |-> [u \in UserIds |-> IF u = 2 THEN "admin"
                                                     ELSE IF u = 3 THEN "member"
                                                     ELSE "none"],
                      name |-> "n0", description |-> "d0"]
       ELSE NoProject]
  /\ nextProj = 2
  /\ boards = [b \in BoardIds |-> IF b = 3 THEN NoBoard
                                   ELSE [project |-> 1, owner |-> 2, members |-> {2}]]
  /\ tasks = [t \in TaskIds |-> [board |-> 1, createdBy |-> 2, assignedTo |-> {3},
                                 title |-> "t0", description |-> "d0",
                                 priority |-> "medium", attachment |-> ""]]
  /\ req = NoReq
  /\ resp = NoResp
  /\ ops = 0
  /\ nextTask = 2
  /\ comments = [c \in CommentIds |-> NoComment]
  /\ nextComment = 1
  /\ dispatch = NoDispatch

\* the router hands a request to its handler; a comment is created while an
\* id of CommentIds is left
ReceiveCollab(r) ==
  /\ req = NoReq
  /\ resp = NoResp
  /\ ops < MaxCollabOps
  /\ r.op = "createComment" => nextComment \in CommentIds
  /\ ops' = ops + 1
  /\ req' = r
  /\ UNCHANGED <<orgs, users, invs, projects, nextProj, boards, tasks, resp>>
  /\ UNCHANGED <<ledger, work>>

\* if (!isProjectMember && user.role !== 'owner' && user.role !== 'admin'),
\* on the stored role
MemberOrStoredAdmin(p, u) ==
  isProjectMember(p, u) \/ users[u].role = "owner" \/ users[u].role = "admin"

\* the checks that updateTaskStatus, getCommentsByTask and createComment make
\* on task t for user u, in the order of the code
TaskAccessStatus(t, u) ==
  IF users[u] = NoUser THEN "ServerError"
  ELSE IF tasks[t] = NoTask THEN "NotFound"
  ELSE IF boards[tasks[t].board] = NoBoard THEN "NotFound"
  ELSE LET p == boards[tasks[t].board].project
       IN IF projects[p] = NoProject THEN "NotFound"
          ELSE IF ~orgs[OrgOf(u)].exists THEN "NotFound"
          ELSE IF projects[p].organization # OrgOf(u) THEN "Forbidden"
          ELSE IF ~MemberOrStoredAdmin(p, u) THEN "Forbidden"
          ELSE "ok"

\* Task.findByIdAndUpdate(id, { $set: { status } }): status is not a path of
\* taskSchema and the strict update drops it
updateTaskStatus ==
  /\ req.op = "updateTaskStatus"
  /\ Answer(TaskAccessStatus(req.id, req.actor), {})
  /\ UNCHANGED <<orgs, users, invs, projects, nextProj, boards, tasks>>
  /\ UNCHANGED <<ledger, work>>

getTasksByBoard ==
  /\ req.op = "getTasksByBoard"
  /\ LET u == req.actor
         b == req.id
         st == IF users[u] = NoUser THEN "ServerError"
               ELSE IF boards[b] = NoBoard THEN "NotFound"
               ELSE IF projects[boards[b].project] = NoProject THEN "NotFound"
               ELSE IF projects[boards[b].project].organization # OrgOf(u) THEN "Forbidden"
               ELSE IF ~MemberOrStoredAdmin(boards[b].project, u) THEN "Forbidden"
               ELSE "ok"
     IN Answer(st, IF st = "ok" THEN {t \in TaskIds : tasks[t] # NoTask /\ tasks[t].board = b}
                   ELSE {})
  /\ UNCHANGED <<orgs, users, invs, projects, nextProj, boards, tasks>>
  /\ UNCHANGED <<ledger, work>>

\* the answer lists the boards of the project
getBoardsByProject ==
  /\ req.op = "getBoardsByProject"
  /\ LET u == req.actor
         p == req.id
         st == IF users[u] = NoUser THEN "ServerError"
               ELSE IF projects[p] = NoProject THEN "NotFound"
               ELSE IF projects[p].organization # OrgOf(u) THEN "Forbidden"
               ELSE IF ~isProjectMember(p, u) /\ projects[p].createdBy # u
                       /\ users[u].role # "owner" /\ users[u].role # "admin"
                 THEN "Forbidden"
               ELSE "ok"
     IN Answer(st, IF st = "ok" THEN {b \in BoardIds : boards[b] # NoBoard
                                                        /\ boards[b].project = p}
                   ELSE {})
  /\ UNCHANGED <<orgs, users, invs, projects, nextProj, boards, tasks>>
  /\ UNCHANGED <<ledger, work>>

\* Comment.find({ task: taskId })
getCommentsByTask ==
  /\ req.op = "getCommentsByTask"
  /\ LET st == TaskAccessStatus(req.id, req.actor)
     IN Answer(st, IF st = "ok" THEN {c \in CommentIds : comments[c] # NoComment
                                                          /\ comments[c].task = req.id}
                   ELSE {})
  /\ UNCHANGED <<orgs, users, invs, projects, nextProj, boards, tasks>>
  /\ UNCHANGED <<ledger, work>>

\* new Comment({ text: text.trim(), task: taskId, author: req.user.id })
createComment ==
  /\ req.op = "createComment"
  /\ LET st == IF trim(req.text) = <<>> THEN "BadRequest"
               ELSE TaskAccessStatus(req.id, req.actor)
     IN /\ Answer(st, {})
        /\ comments' = IF st # "ok" THEN comments
                       ELSE [comments EXCEPT ![nextComment] =
                               [task |-> req.id, author |-> req.actor,
                                text |-> trim(req.text)]]
        /\ nextComment' = IF st # "ok" THEN nextComment ELSE nextComment + 1
  /\ UNCHANGED <<orgs, users, invs, projects, nextProj, boards, tasks, nextTask,
                 dispatch>>
  /\ UNCHANGED ledger

\* a check of the author that nobody passes
isAuthorNever(c, u) == FALSE

\* comment.author.toString() === req.user.id
isAuthor(c, u) == comments[c].author = u

\* comment.text = text.trim(); only the author passes
updateComment ==
  /\ req.op = "updateComment"
  /\ LET c == req.id
         st == IF trim(req.text) = <<>> THEN "BadRequest"
               ELSE IF comments[c] = NoComment THEN "NotFound"
               ELSE IF users[req.actor] = NoUser THEN "ServerError"
               ELSE IF ~isAuthor(c, req.actor) THEN "Forbidden"
               ELSE "ok"
     IN /\ Answer(st, {})
        /\ comments' = IF st # "ok" THEN comments
                       ELSE [comments EXCEPT ![c].text = trim(req.text)]
  /\ UNCHANGED <<orgs, users, invs, projects, nextProj, boards, tasks, nextTask,
                 nextComment, dispatch>>
  /\ UNCHANGED ledger

\* user.role === 'admin' || organization.owner is the user, of deleteComment
StoredAdminOrLinkedOwner(u) ==
  users[u].role = "admin" \/ (orgs[OrgOf(u)].owner # 0 /\ orgs[OrgOf(u)].owner = u)

\* Comment.findByIdAndDelete(req.params.commentId)
deleteComment ==
  /\ req.op = "deleteComment"
  /\ LET c == req.id
         u == req.actor
         st == IF comments[c] = NoComment THEN "NotFound"
               ELSE IF users[u] = NoUser THEN "ServerError"
               ELSE IF ~orgs[OrgOf(u)].exists THEN "NotFound"
               ELSE IF ~isAuthor(c, u) /\ ~StoredAdminOrLinkedOwner(u) THEN "Forbidden"
               ELSE "ok"
     IN /\ Answer(st, {})
        /\ comments' = IF st # "ok" THEN comments ELSE [comments EXCEPT ![c] = NoComment]
  /\ UNCHANGED <<orgs, users, invs, projects, nextProj, boards, tasks, nextTask,
                 nextComment, dispatch>>
  /\ UNCHANGED ledger

CollabNext ==
  \/ \E r \in CollabRequests : ReceiveCollab(r)
  \/ Sent
  \/ \E id \in UserIds, role \in StoredRoles : updateUserById(id, role)
  \/ updateTaskStatus
  \/ getTasksByBoard
  \/ getBoardsByProject
  \/ getCommentsByTask
  \/ createComment
  \/ updateComment
  \/ deleteComment
  \/ updateTask

SpecCollab == CollabInit /\ [][CollabNext]_vars

\* ======================================================= members of boards
\* requests of SpecBoard that the router takes
MaxBoardOps == 2

\* req.body.members of updateBoard: absent, or a list of one user
MembersInputs == {<<FALSE, {}>>, <<TRUE, {3}>>, <<TRUE, {4}>>}

\* the requests of SpecBoard, on project 1 and on board 1
BoardRequests ==
  {r \in ProjRequests : r.op \in {"assignProject", "addMember"} /\ r.id = 1}
  \cup {[NoReq EXCEPT !.op = "updateBoard", !.actor = a, !.id = 1,
                       !.hasMembers = m[1], !.members = m[2]] :
      a \in UserIds, m \in MembersInputs}
  \cup {[NoReq EXCEPT !.op = "sendBoardInvite", !.actor = a, !.id = 1, !.userId = t] :
      a \in UserIds, t \in UserIds}

ReceiveBoard(r) ==
  /\ req = NoReq
  /\ resp = NoResp
  /\ ops < MaxBoardOps
  /\ ops' = ops + 1
  /\ req' = r
  /\ UNCHANGED <<orgs, users, invs, projects, nextProj, boards, tasks, resp>>
  /\ UNCHANGED <<ledger, work>>

\* the status of an updateBoard request, the checks in the order of the code.
\* The user is loaded with populate('organization'), so user.organization
\* .toString() is the string of a document, and project.organization
\* .toString() the string of an id
UpdateBoardStatus(b, u, hasMembers, members) ==
  IF users[u] = NoUser THEN "ServerError"
  ELSE IF boards[b] = NoBoard THEN "NotFound"
  ELSE IF ~orgs[OrgOf(u)].exists THEN "NotFound"
  ELSE LET p == boards[b].project
       IN IF projects[p] = NoProject THEN "NotFound"
          ELSE IF ObjectIdToString(projects[p].organization) # DocumentToString(OrgOf(u))
            THEN "Forbidden"
          ELSE IF ~MemberOrStoredAdmin(p, u) THEN "Forbidden"
          ELSE IF boards[b].owner # u /\ ~isProjectAdmin(p, u)
                  /\ ~isAdminOrOwner(u, OrgOf(u))
            THEN "Forbidden"
          ELSE IF hasMembers /\ \E m \in members : ~isProjectMember(p, m)
            THEN "BadRequest"
          ELSE "ok"

\* Board.findByIdAndUpdate(req.params.id, { $set: updateData })
updateBoard ==
  /\ req.op = "updateBoard"
  /\ LET st == UpdateBoardStatus(req.id, req.actor, req.hasMembers, req.members)
     IN /\ Answer(st, {})
        /\ boards' = IF st = "ok" /\ req.hasMembers
                       THEN [boards EXCEPT ![req.id].members = req.members]
                     ELSE boards
  /\ UNCHANGED <<orgs, users, invs, projects, nextProj, tasks>>
  /\ UNCHANGED <<ledger, work>>

\* the status of a sendBoardInvite request, the checks in the order of the
\* code: the invited user has to exist and not to be on the board
SendBoardInviteStatus(b, u, t) ==
  IF users[u] = NoUser THEN "ServerError"
  ELSE IF boards[b] = NoBoard THEN "NotFound"
  ELSE LET p == boards[b].project
       IN IF projects[p] = NoProject THEN "NotFound"
          ELSE IF projects[p].organization # OrgOf(u) THEN "Forbidden"
          ELSE IF ~MemberOrStoredAdmin(p, u) THEN "Forbidden"
          ELSE IF users[t] = NoUser THEN "NotFound"
          ELSE IF t \in boards[b].members THEN "BadRequest"
          ELSE "ok"

\* board.members.push(userId); board.save()
sendBoardInvite ==
  /\ req.op = "sendBoardInvite"
  /\ LET st == SendBoardInviteStatus(req.id, req.actor, req.userId)
     IN /\ Answer(st, {})
        /\ boards' = IF st # "ok" THEN boards
                     ELSE [boards EXCEPT ![req.id].members = @ \cup {req.userId}]
  /\ UNCHANGED <<orgs, users, invs, projects, nextProj, tasks>>
  /\ UNCHANGED <<ledger, work>>

BoardNext ==
  \/ \E r \in BoardRequests : ReceiveBoard(r)
  \/ Sent
  \/ assignProject
  \/ addMember
  \/ updateBoard
  \/ sendBoardInvite

\* SpecBoard starts where SpecWork starts
SpecBoard == WorkInit /\ [][BoardNext]_vars

\* ============================================ removal of a member
\* the state of SpecRemove after construction: organization oA with its owner
\* and an admin; user 3 joined through invitation 1 (accepted) and is a member
\* of project 1 and of board 1 and the assignee of task 1
RemoveInit ==
  /\ now = 0
  /\ orgs = [o \in OrgIds |-> IF o = "oA" THEN [exists |-> TRUE, owner |-> 1]
                               ELSE [exists |-> FALSE, owner |-> 0]]
  /\ users = [u \in UserIds |->
               IF u = 1 THEN [email |-> <<"o", "@">>, organization |-> "oA",
                              role |-> "owner", regToken |-> 0]
               ELSE IF u = 2 THEN [email |-> <<"a", "@">>, organization |-> "oA",
                                   role |-> "admin", regToken |-> 0]
               ELSE IF u = 3 THEN [email |-> <<"b", "@">>, organization |-> "oA",
                                   role |-> "member", regToken |-> 1]
               ELSE NoUser]
  /\ nextUser = 4
  /\ invs = [i \in InvIds |->
               IF i = 1 THEN [organization |-> "oA", invitedBy |-> 2,
                              invitedEmail |-> <<"b", "@">>, memberId |-> 3,
                              status |-> "accepted", role |-> "member",
                              invitationToken |-> 1, tokenExpiresAt |-> InviteTTL]
               ELSE NoInv]
  /\ nextInv = 2
  /\ nextTok = 2
  /\ inv = [p \in InvProcs |-> IdleInv]
  /\ reg = [p \in RegProcs |-> IdleReg]
  /\ inviteCalls = 0
  /\ regCalls = 0
  /\ projects = [p \in ProjIds |->
       IF p = 1 THEN [NoProject EXCEPT !.organization = "oA", !.createdBy = 1, !.name = "n0",
                        !.members = [u \in UserIds |-> IF u = 1 THEN "admin"
                                                       ELSE IF u = 3 THEN "member" ELSE "none"]]
       ELSE NoProject]
  /\ nextProj = 2
  /\ boards = [b \in BoardIds |->
       IF b = 1 THEN [project |-> 1, owner |-> 1, members |-> {1, 3}] ELSE NoBoard]
  /\ tasks = [t \in TaskIds |->
       [NoTask EXCEPT !.board = 1, !.createdBy = 1, !.assignedTo = {3}, !.title = "t0"]]
  /\ req = NoReq
  /\ resp = NoResp
  /\ ops = 0
  /\ nextTask = 2
  /\ comments = [c \in CommentIds |-> NoComment]
  /\ nextComment = 1
  /\ dispatch = NoDispatch

\* DELETE /organizations/members/:userId as the router hands it over
RemovalRequests ==
  {[NoReq EXCEPT !.op = "removeMemberFromOrganization", !.actor = a, !.userId = t] :
      a \in UserIds, t \in UserIds}

ReceiveRemoval(r) ==
  /\ req = NoReq
  /\ resp = NoResp
  /\ ops < MaxRegCalls - 1
  /\ ops' = ops + 1
  /\ req' = r
  /\ UNCHANGED <<orgs, users, invs, projects, nextProj, boards, tasks, resp>>
  /\ UNCHANGED <<ledger, work>>

\* the ledger with one register call, and the removal of members
RemoveNext ==
  \/ Ledger(MaxInviteCalls, MaxRegCalls - 1)
  \/ \E r \in RemovalRequests : ReceiveRemoval(r)
  \/ removeMemberFromOrganization
  \/ Sent

SpecRemove == RemoveInit /\ [][RemoveNext]_vars

\* ==================================================== deletions
\* the requests of SpecDelete: deleteProject, deleteBoard and
\* deleteOrganization (the organization is the requesting user's)
DeleteRequests ==
  {[NoReq EXCEPT !.op = "deleteProject", !.actor = a, !.id = p] :
      a \in UserIds, p \in ProjIds}
  \cup {[NoReq EXCEPT !.op = "deleteBoard", !.actor = a, !.id = b] :
      a \in UserIds, b \in BoardIds}
  \cup {[NoReq EXCEPT !.op = "deleteOrganization", !.actor = a] : a \in UserIds}

ReceiveDelete(r) ==
  /\ req = NoReq
  /\ resp = NoResp
  /\ ops < MaxBoardOps
  /\ ops' = ops + 1
  /\ req' = r
  /\ UNCHANGED <<orgs, users, invs, projects, nextProj, boards, tasks, resp>>
  /\ UNCHANGED <<ledger, work>>

\* the status of a deleteBoard request, the checks in the order of the code:
\* the board is looked at before the user, board.project._id of a board whose
\* populated project is null throws, and the organization of the project (the
\* string of an id) is compared with the populated user.organization (the
\* string of a document)
DeleteBoardStatus(b, u) ==
  IF boards[b] = NoBoard THEN "NotFound"
  ELSE IF users[u] = NoUser THEN "ServerError"
  ELSE IF ~orgs[OrgOf(u)].exists THEN "NotFound"
  ELSE LET p == boards[b].project
       IN IF projects[p] = NoProject THEN "ServerError"
          ELSE IF ObjectIdToString(projects[p].organization) # DocumentToString(OrgOf(u))
            THEN "Forbidden"
          ELSE IF ~MemberOrStoredAdmin(p, u) THEN "Forbidden"
          ELSE IF boards[b].owner # u /\ ~isProjectAdmin(p, u)
                  /\ ~isAdminOrOwner(u, OrgOf(u))
            THEN "Forbidden"
          ELSE "ok"

\* Board.findByIdAndDelete(req.params.id)
deleteBoard ==
  /\ req.op = "deleteBoard"
  /\ LET st == DeleteBoardStatus(req.id, req.actor)
     IN /\ Answer(st, {})
        /\ boards' = IF st # "ok" THEN boards ELSE [boards EXCEPT ![req.id] = NoBoard]
  /\ UNCHANGED <<orgs, users, invs, projects, nextProj, tasks>>
  /\ UNCHANGED <<ledger, work>>

\* the status of a deleteOrganization request
DeleteOrganizationStatus(u) ==
  IF users[u] = NoUser THEN "ServerError"
  ELSE IF ~orgs[OrgOf(u)].exists THEN "NotFound"
  ELSE IF ~canDeleteOrg(u, OrgOf(u)) THEN "Forbidden"
  ELSE "ok"

\* Organization.findByIdAndDelete(organization._id)
deleteOrganization ==
  /\ req.op = "deleteOrganization"
  /\ LET st == DeleteOrganizationStatus(req.actor)
     IN /\ Answer(st, {})
        /\ orgs' = IF st # "ok" THEN orgs
                   ELSE [orgs EXCEPT ![OrgOf(req.actor)] = [exists |-> FALSE, owner |-> 0]]
  /\ UNCHANGED <<users, invs, projects, nextProj, boards, tasks>>
  /\ UNCHANGED <<ledger, work>>

DeleteNext ==
  \/ \E r \in DeleteRequests : ReceiveDelete(r)
  \/ Sent
  \/ deleteProject
  \/ deleteBoard
  \/ deleteOrganization

\* SpecDelete starts where SpecCollab starts: project 1 with boards 1 and 2,
\* task 1 on board 1
SpecDelete == CollabInit /\ [][DeleteNext]_vars

\* ============================================ ownership of organizations
\* DELETE /users/:id: User.findByIdAndDelete(id), no authentication
deleteUserById(id) ==
  /\ req = NoReq
  /\ resp = NoResp
  /\ users' = [users EXCEPT ![id] = NoUser]
  /\ resp' = [req |-> [NoReq EXCEPT !.op = "deleteUserById", !.userId = id],
              status |-> IF users[id] = NoUser THEN "BadRequest" ELSE "ok",
              list |-> {}]
  /\ UNCHANGED <<orgs, invs, projects, nextProj, boards, tasks, req, ops>>
  /\ UNCHANGED <<ledger, work>>

\* the requests of the member administration
OwnerRequests ==
  {r \in ProjRequests : r.op \in {"updateMember", "removeMemberFromOrganization"}}

ReceiveOwner(r) ==
  /\ req = NoReq
  /\ resp = NoResp
  /\ ops < MaxBoardOps
  /\ ops' = ops + 1
  /\ req' = r
  /\ UNCHANGED <<orgs, users, invs, projects, nextProj, boards, tasks, resp>>
  /\ UNCHANGED <<ledger, work>>

OwnerNext ==
  \/ \E r \in OwnerRequests : ReceiveOwner(r)
  \/ Sent
  \/ updateMember
  \/ removeMemberFromOrganization
  \/ \E id \in UserIds, role \in StoredRoles : updateUserById(id, role)
  \/ \E id \in UserIds : deleteUserById(id)

\* SpecOwner starts where SpecPerm starts
SpecOwner == PermInit /\ [][OwnerNext]_vars

\* ============================================ registration cut short
\* the registration fails between user.save() and the update of the
\* invitation: OrganizationInvitation.findOneAndUpdate rejects and the catch
\* block answers 500; the user stays, the invitation is not touched
RegMarkFails(p) ==
  /\ reg[p].pc = "markAccepted"
  /\ reg' = [reg EXCEPT ![p] = RegDone(reg[p], "ServerError")]
  /\ UNCHANGED <<now, orgs, users, nextUser, invs, nextInv, nextTok, inv, inviteCalls, regCalls>>
  /\ UNCHANGED hier

\* the ledger whose registrations may be cut short
RetryNext ==
  \/ Next
  \/ \E p \in RegProcs : RegMarkFails(p)

SpecRetry == Init /\ [][RetryNext]_vars

\* ================================================== notifications
\* the requests of SpecNotify: the handlers that send a push or a mail
NotifyRequests ==
  {r \in WorkRequests \cup CollabRequests \cup BoardRequests :
     r.op \in {"createTask", "updateTask", "updateTaskStatus", "sendBoardInvite"}}

\* the router hands a request to its handler; no notification of this request
\* has been handed over yet
ReceiveNotify(r) ==
  /\ req = NoReq
  /\ resp = NoResp
  /\ ops < MaxWorkOps
  /\ r.op = "createTask" => nextTask \in TaskIds
  /\ ops' = ops + 1
  /\ req' = r
  /\ dispatch' = NoDispatch
  /\ UNCHANGED <<orgs, users, invs, projects, nextProj, boards, tasks, resp>>
  /\ UNCHANGED <<ledger, nextTask, comments, nextComment>>

PushOps == {"createTask", "updateTask", "updateTaskStatus"}

\* the assignees of the task written by the answered request, without the
\* requesting user: the users that createTask and updateTaskStatus notify, and
\* the users among whom updateTask picks the ones it notifies
Assignees ==
  LET t == IF resp.req.op = "createTask" THEN nextTask - 1 ELSE resp.req.id
  IN IF t \in TaskIds THEN tasks[t].assignedTo \ {resp.req.actor} ELSE {}

\* the try block that follows the write of the task: Promise.all of
\* sendPushToUser, whose failure is caught and logged; the response, fixed by
\* the write, is sent afterwards
sendPushToUser(delivered) ==
  /\ req = NoReq
  /\ resp.status = "ok" /\ resp.req.op \in PushOps
  /\ dispatch = NoDispatch
  /\ Assignees # {}
  /\ dispatch' = [op |-> resp.req.op, delivered |-> delivered]
  /\ UNCHANGED <<orgs, users, invs, projects, nextProj, boards, tasks, req, resp, ops>>
  /\ UNCHANGED <<ledger, nextTask, comments, nextComment>>

\* sendBoardInvite up to await sendBoardInvitation(...): the checks have
\* passed, the mail is handed over; sendBoardInvitation catches its errors and
\* returns { success }
sendBoardInvitation(delivered) ==
  /\ req.op = "sendBoardInvite"
  /\ dispatch = NoDispatch
  /\ SendBoardInviteStatus(req.id, req.actor, req.userId) = "ok"
  /\ dispatch' = [op |-> req.op, delivered |-> delivered]
  /\ UNCHANGED <<orgs, users, invs, projects, nextProj, boards, tasks, req, resp, ops>>
  /\ UNCHANGED <<ledger, nextTask, comments, nextComment>>

\* sendBoardInvite from there on: board.members.push(userId), board.save()
\* and the response; a request that fails a check is answered without a mail
sendBoardInviteSave ==
  /\ req.op = "sendBoardInvite"
  /\ SendBoardInviteStatus(req.id, req.actor, req.userId) = "ok" => dispatch # NoDispatch
  /\ sendBoardInvite

NotifyNext ==
  \/ \E r \in NotifyRequests : ReceiveNotify(r)
  \/ Sent
  \/ createTask
  \/ updateTask
  \/ updateTaskStatus
  \/ \E d \in BOOLEAN : sendPushToUser(d)
  \/ \E d \in BOOLEAN : sendBoardInvitation(d)
  \/ sendBoardInviteSave

\* SpecNotify starts where SpecWork starts
SpecNotify == WorkInit /\ [][NotifyNext]_vars

\* ================================================ moves of a task
\* the requests of SpecMove: updateTask without a priority and a file, and
\* deleteProject
MoveRequests ==
  {r \in TaskRequests : r.body.priority = "undefined" /\ ~r.body.file}
  \cup {r \in DeleteRequests : r.op = "deleteProject"}

ReceiveMove(r) ==
  /\ req = NoReq
  /\ resp = NoResp
  /\ ops < MaxTaskOps
  /\ ops' = ops + 1
  /\ req' = r
  /\ UNCHANGED <<orgs, users, invs, projects, nextProj, boards, tasks, resp>>
  /\ UNCHANGED <<ledger, work>>

MoveNext ==
  \/ \E r \in MoveRequests : ReceiveMove(r)
  \/ Sent
  \/ updateTask
  \/ deleteProject

\* SpecMove starts where SpecTask starts: task 1 on board 1 of project 1,
\* board 2 in the same project and board 3 in project 2
SpecMove == TaskInit /\ [][MoveNext]_vars

\* ================================================================ properties
\* steps of the handlers, as seen in a pair of states
\* the step in which request p of inviteUserToOrganization reads the invitation
InviteLookupStep(p) == inv[p].pc = "findInv" /\ inv'[p].pc # "findInv"

\* the step in which request p of inviteUserToOrganization is answered
InviteAnswerStep(p) == Busy(inv[p]) /\ inv'[p].pc = "done"

\* the step in which request p of register reads the invitation
RegLookupStep(p) == FreeRegSlot(p) /\ regCalls' = regCalls + 1

\* users created by a registration that carried token t
UsersOfToken(t) == {u \in UserIds : users[u] # NoUser /\ users[u].regToken = t}

\* invitations of a pair that can still be accepted
LiveRows(o, e, rows, t) ==
  {i \in InvIds : rows[i] # NoInv /\ rows[i].organization = o /\ rows[i].invitedEmail = e
                  /\ rows[i].status = "invited" /\ rows[i].tokenExpiresAt > t}

\* the email of a request, lower-cased and with its blanks removed
Canonical(raw) == SelectSeq([i \in DOMAIN raw |-> LowerChar(raw[i])], LAMBDA c : c # " ")

\* C2: under any interleaving of register calls, at most one User is ever
\* created for a given invitation token
C2_OneUserPerToken == \A t \in Tokens : Cardinality(UsersOfToken(t)) <= 1

\* C3: a registration carrying the token of an invitation that the owner
\* issued with role manager, for an email not yet in the organization, creates
\* a User with the invitation's organization and role manager and goes on to
\* mark the invitation accepted
C3_ManagerInviteRegisters ==
  [][\A p \in RegProcs :
       (/\ reg[p].pc = "saveUser" /\ reg'[p].pc # "saveUser"
        /\ reg[p].role = "manager"
        /\ \E i \in InvByToken(reg[p].token) : invs[i].invitedBy = orgs[reg[p].org].owner
        /\ UserByEmailOrg(reg[p].email, reg[p].org) = {})
       => /\ reg'[p].pc = "markAccepted"
          /\ users'[reg'[p].user].role = "manager"
          /\ users'[reg'[p].user].organization = reg[p].org]_vars

\* C4: an invite call that reads the invitations while a live invitation
\* (status invited, tokenExpiresAt in the future) is stored for its
\* organization and its email, with case and blanks normalised, is rejected as
\* already invited; no invitation changes and exactly one live invitation of
\* the pair is stored afterwards
C4_LiveInvitationRejectsSecondInvite ==
  [][\A p \in InvProcs :
       (InviteLookupStep(p)
        /\ LiveRows(inv[p].org, Canonical(inv[p].raw), invs, now) # {})
       => /\ inv'[p].pc = "done" /\ inv'[p].res = "AlreadyInvited"
          /\ invs' = invs
          /\ Cardinality(LiveRows(inv[p].org, Canonical(inv[p].raw), invs', now')) = 1]_vars

\* C4 witness: a call whose email differs in case and blanks from the stored
\* one was rejected while the live invitation is stored
C4_Witness ==
  \E p \in InvProcs :
    /\ inv[p].pc = "done" /\ inv[p].res = "AlreadyInvited"
    /\ inv[p].raw = <<" ", "B", "@">>
    /\ LiveRows(inv[p].org, <<"b", "@">>, invs, now) # {}

\* C5: when the later of two concurrent invite calls for the same pair is
\* answered and a caller was told the invitation succeeded, exactly one
\* invitation of the pair is stored, it is live, and every caller that was
\* told so holds the token stored in it
C5_ConcurrentInvitesAgree ==
  [][\A p \in InvProcs : \A q \in InvProcs \ {p} :
       (/\ InviteAnswerStep(p)
        /\ inv[q].pc = "done" /\ inv[q].res = "ok"
        /\ inv[q].org = inv[p].org /\ inv[q].email = inv[p].email
        /\ (inv[p].raced \/ inv[q].raced)
        /\ regCalls = 0)
       => LET rows == {i \in InvIds : /\ invs'[i] # NoInv
                                       /\ invs'[i].organization = inv[p].org
                                       /\ invs'[i].invitedEmail = inv[p].email}
          IN /\ Cardinality(rows) = 1
             /\ rows = LiveRows(inv[p].org, inv[p].email, invs', now')
             /\ \A i \in rows :
                  /\ invs'[i].invitationToken = inv[q].token
                  /\ inv'[p].res = "ok" => invs'[i].invitationToken = inv'[p].token]_vars

\* the invitation of a pair that the claim of recycling is about
RecyclableFor(d, o, e, t) ==
  \/ d.status = "declined"
  \/ d.tokenExpiresAt <= t
  \/ d.status = "accepted" /\ UserByEmailOrg(e, o) = {}

\* C6: an invitation that is declined, expired, or accepted with no User of its
\* email in the organization sends a new invite call for the pair to the
\* recycle path; the save of that path keeps the record (same identity, no
\* further row), gives it a new token and a new expiry, status invited and no
\* memberId, and answers with the new token; a registration carrying the token
\* the record had before fails as invalid or expired and creates no User
C6_RecycleReusesRecord ==
  [][/\ \A p \in InvProcs :
          (InviteLookupStep(p)
           /\ \E i \in InvByOrgEmail(inv[p].org, inv[p].email) :
                 RecyclableFor(invs[i], inv[p].org, inv[p].email, now))
          => /\ inv'[p].pc \in {"recheck", "recycle"}
             /\ inv'[p].existing \in InvByOrgEmail(inv[p].org, inv[p].email)
     /\ \A p \in InvProcs :
          (inv[p].pc = "recheck" /\ inv'[p].pc # "recheck"
           /\ UserByEmailOrg(inv[p].email, inv[p].org) = {})
          => inv'[p].pc = "recycle"
     /\ \A p \in InvProcs :
          (inv[p].pc = "recycle" /\ inv'[p].pc # "recycle"
           /\ invs[inv[p].existing] = inv[p].snap)
          => LET i == inv[p].existing
             IN /\ inv'[p].res = "ok"
                /\ invs'[i].organization = inv[p].org
                /\ invs'[i].invitedEmail = inv[p].email
                /\ invs'[i].status = "invited"
                /\ invs'[i].memberId = 0
                /\ invs'[i].tokenExpiresAt = now + InviteTTL
                /\ invs'[i].tokenExpiresAt > now
                /\ invs'[i].invitationToken # inv[p].snap.invitationToken
                /\ InvByToken(inv[p].snap.invitationToken) = {i}
                /\ inv'[p].token = invs'[i].invitationToken
                /\ \A j \in InvIds \ {i} : invs'[j] = invs[j]
                /\ nextInv' = nextInv
     /\ \A r \in RegProcs :
          (RegLookupStep(r)
           /\ \E p \in InvProcs : /\ inv[p].pc = "done" /\ inv[p].res = "ok"
                                    /\ inv[p].existing # 0
                                    /\ inv[p].readTok = reg'[r].token)
          => /\ reg'[r].pc = "done" /\ reg'[r].res = "InvalidOrExpired"
             /\ users' = users]_vars

\* C6 witness: a call recycled an invitation, the record carries the new token
\* and a registration with the token it had before was refused
C6_Witness ==
  \E p \in InvProcs : \E r \in RegProcs :
    /\ inv[p].pc = "done" /\ inv[p].res = "ok" /\ inv[p].existing # 0
    /\ invs[inv[p].existing].invitationToken = inv[p].token
    /\ inv[p].token # inv[p].readTok
    /\ reg[r].pc = "done" /\ reg[r].res = "InvalidOrExpired"
    /\ reg[r].token = inv[p].readTok

\* C6 witness of the accepted case: the recycled invitation had been accepted
\* by a User of another email
C6_WitnessAccepted ==
  \E p \in InvProcs : \E u \in UserIds :
    /\ inv[p].pc = "done" /\ inv[p].res = "ok" /\ inv[p].existing # 0
    /\ users[u] # NoUser /\ users[u].regToken = inv[p].readTok
    /\ invs[inv[p].existing].status = "invited"
    /\ invs[inv[p].existing].memberId = 0

\* C7: a registration whose token belongs to an invitation with tokenExpiresAt
\* not later than the current time fails as invalid or expired, creates no User
\* and changes no invitation
C7_ExpiredTokenRejected ==
  [][\A r \in RegProcs :
       (RegLookupStep(r)
        /\ \E i \in InvByToken(reg'[r].token) : invs[i].tokenExpiresAt <= now)
       => /\ reg'[r].pc = "done" /\ reg'[r].res = "InvalidOrExpired"
          /\ users' = users
          /\ invs' = invs]_vars

\* C7 witness: a registration was refused while the invitation of its token is
\* still stored with status invited and is expired
C7_Witness ==
  \E r \in RegProcs : \E i \in InvByToken(reg[r].token) :
    /\ reg[r].pc = "done" /\ reg[r].res = "InvalidOrExpired"
    /\ invs[i].status = "invited"
    /\ invs[i].tokenExpiresAt <= now

\* the handlers of the project controller that take a project id
ProjectIdOps == {"updateProject", "deleteProject", "assignProject", "addMember",
                 "removeMember", "updateMemberRole"}

\* C1: a request on a Project by an actor whose organization differs from the
\* Project's organization is denied with Forbidden, whatever the actor's role,
\* and the Project (fields and member list) is left unchanged
C1_CrossTenantDenied ==
  [][(/\ req.op \in ProjectIdOps
      /\ users[req.actor] # NoUser
      /\ projects[req.id] # NoProject
      /\ projects[req.id].organization # OrgOf(req.actor))
     => /\ resp'.status = "Forbidden"
        /\ projects' = projects]_vars

\* the request carries a title, a description, assignees or a file
ChangesContent(b) ==
  b.title # "undefined" \/ b.description # "undefined" \/ b.hasAssignedTo \/ b.file

\* C8: an updateTask request that changes the title, description, assignees or
\* attachment of a Task of the actor's organization is not refused to an actor
\* whose organization role is manager or above, nor to a member listed in the
\* Task's assignedTo; a member who is not listed is answered Forbidden and none
\* of those fields changes, whatever else the request carries
C8_UpdateTaskByAssignment ==
  [][(/\ req.op = "updateTask"
      /\ users[req.actor] # NoUser
      /\ tasks[req.id] # NoTask
      /\ ChangesContent(req.body)
      /\ projects[boards[tasks[req.id].board].project].organization = OrgOf(req.actor))
     => LET role == getUserRole(req.actor, OrgOf(req.actor))
            assigned == req.actor \in tasks[req.id].assignedTo
        IN /\ role \in {"owner", "admin", "manager"} => resp'.status # "Forbidden"
           /\ (role = "member" /\ assigned) => resp'.status # "Forbidden"
           /\ (role = "member" /\ ~assigned)
              => /\ resp'.status = "Forbidden"
                 /\ tasks'[req.id].title = tasks[req.id].title
                 /\ tasks'[req.id].description = tasks[req.id].description
                 /\ tasks'[req.id].assignedTo = tasks[req.id].assignedTo
                 /\ tasks'[req.id].attachment = tasks[req.id].attachment]_vars

\* the request removes or re-roles the creator of an existing Project, and its
\* caller is an existing user
TargetsCreator ==
  /\ req.op \in {"removeMember", "updateMemberRole"}
  /\ users[req.actor] # NoUser
  /\ projects[req.id] # NoProject
  /\ projects[req.id].createdBy = req.userId

\* C9 as stated: a removeMember or updateMemberRole request whose target is
\* the Project's createdBy fails with Conflict and leaves the member list
\* unchanged, whoever calls
C9_CreatorAlwaysConflict ==
  [][TargetsCreator => resp'.status = "Conflict" /\ projects' = projects]_vars

\* C9 amended: such a request never changes the Project, whoever calls; it
\* fails with Conflict or Forbidden, and for a caller of the Project's
\* organization with Conflict when the caller is a project admin or an
\* organization admin or owner, and with Forbidden otherwise
C9_CreatorKept ==
  [][TargetsCreator
     => /\ projects' = projects
        /\ resp'.status \in {"Conflict", "Forbidden"}
        /\ OrgOf(req.actor) = projects[req.id].organization
           => resp'.status =
                IF \/ projects[req.id].members[req.actor] = "admin"
                   \/ getUserRole(req.actor, OrgOf(req.actor)) \in {"owner", "admin"}
                THEN "Conflict" ELSE "Forbidden"]_vars

\* C9 witness: a member who may not mutate the list asked to remove or re-role
\* the creator and was answered Forbidden
C9_Witness ==
  /\ resp.req.op \in {"removeMember", "updateMemberRole"}
  /\ resp.status = "Forbidden"
  /\ projects[resp.req.id] # NoProject
  /\ projects[resp.req.id].createdBy = resp.req.userId
  /\ projects[resp.req.id].members[resp.req.userId] = "admin"

\* C10: getProjects of user U lists Project P iff P belongs to U's
\* organization and U is organization admin or owner, or P.createdBy, or in
\* P.members
C10_VisibleProjects ==
  [][(req.op = "getProjects" /\ users[req.actor] # NoUser)
     => /\ resp'.status = "ok"
        /\ resp'.list =
             {p \in ProjIds :
                /\ projects[p] # NoProject
                /\ projects[p].organization = OrgOf(req.actor)
                /\ \/ isAdminOrOwner(req.actor, OrgOf(req.actor))
                   \/ projects[p].createdBy = req.actor
                   \/ projects[p].members[req.actor] # "none"}]_vars

\* ------------------------------------------------------ permission functions
\* C11: getUserRole is a function of the stored user and organization: it
\* returns owner whenever organization.owner is the user's id, whatever role
\* is stored on the user, and the stored role of the user otherwise
C11_EffectiveRole ==
  (resp.req.op = "permissions" /\ users[resp.req.actor] # NoUser
     /\ orgs[resp.req.name].exists)
    => resp.status = IF orgs[resp.req.name].owner = resp.req.actor THEN "owner"
                     ELSE users[resp.req.actor].role

\* the owner of oA, stored with a lesser role, is asked about and is owner
C11_Witness ==
  /\ resp.req.op = "permissions"
  /\ resp.req.actor = 1
  /\ resp.req.name = "oA"
  /\ orgs["oA"].owner = 1
  /\ users[1].role \in {"member", "manager"}
  /\ resp.status = "owner"

\* C12: the stored role of a user reaches a decision only through the
\* effective role: the owner of an organization, whatever role is stored on
\* their user, is listed every project of the organization, as with the
\* stored role owner
C12_OwnerLinkageDecides ==
  (resp.req.op = "getProjects" /\ resp.status = "ok"
     /\ orgs[OrgOf(resp.req.actor)].owner = resp.req.actor)
    => resp.list = OrgProjects(OrgOf(resp.req.actor))

\* C13: isMember(user, organization) is true exactly when the organization
\* that the user refers to is the organization asked about: a user of
\* organization A is a member of A and of no other organization
C13_MemberOfOwnOrganizationOnly ==
  (resp.req.op = "permissions" /\ users[resp.req.actor] # NoUser
     /\ orgs[resp.req.name].exists)
    => (("isMember" \in resp.list) <=> (users[resp.req.actor].organization = resp.req.name))

\* the effective role of user u in organization o
EffectiveRole(u, o) == IF orgs[o].owner = u THEN "owner" ELSE users[u].role

OutsiderOf(p, u) ==
  /\ users[u] # NoUser
  /\ projects[p] # NoProject
  /\ projects[p].organization = OrgOf(u)
  /\ EffectiveRole(u, OrgOf(u)) = "member"
  /\ ~isProjectMember(p, u)
  /\ projects[p].createdBy # u

C16_AdminUpdatesMembers ==
  [][req.op = "updateMember"
       => /\ (/\ users[req.actor] # NoUser
              /\ orgs[OrgOf(req.actor)].exists
              /\ EffectiveRole(req.actor, OrgOf(req.actor)) \in {"admin", "owner"}
              /\ users[req.userId] # NoUser
              /\ OrgOf(req.userId) = OrgOf(req.actor)
              /\ orgs[OrgOf(req.actor)].owner # req.userId)
               => /\ resp'.status = "ok"
                  /\ users'[req.userId].role = req.role
          /\ \A o \in OrgIds :
               (orgs[o].exists /\ orgs[o].owner \in UserIds)
                 => users'[orgs[o].owner] = users[orgs[o].owner]]_vars

\* ------------------------------------------------------------- comments
\* a request to update or to delete a comment that exists, with a text where
\* one is needed, from a user who exists
CommentEdit ==
  /\ req.op \in {"updateComment", "deleteComment"}
  /\ comments[req.id] # NoComment
  /\ users[req.actor] # NoUser
  /\ orgs[OrgOf(req.actor)].exists
  /\ req.op = "updateComment" => trim(req.text) # <<>>

\* C17 as the specification has it: a comment is updated or deleted by its
\* author and by a user whose effective role is admin or owner, by them only,
\* and a refused request leaves the comment as it is
C17_AuthorOrAdmin ==
  [][CommentEdit
       => LET permitted ==
                \/ comments[req.id].author = req.actor
                \/ EffectiveRole(req.actor, OrgOf(req.actor)) \in {"admin", "owner"}
          IN /\ resp'.status = "ok" <=> permitted
             /\ ~permitted => comments' = comments]_vars

\* C17, amended: a comment is updated by its author only; it is deleted by its
\* author, by a user stored as admin and by the owner of the user's
\* organization, by them only; a refused request leaves the comment as it is
C17_AuthorUpdatesAdminDeletes ==
  [][CommentEdit
       => LET author == comments[req.id].author = req.actor
              permitted ==
                IF req.op = "updateComment" THEN author
                ELSE \/ author
                     \/ users[req.actor].role = "admin"
                     \/ orgs[OrgOf(req.actor)].owner = req.actor
          IN /\ resp'.status = "ok" <=> permitted
             /\ ~permitted => resp'.status = "Forbidden" /\ comments' = comments
             /\ (permitted /\ req.op = "updateComment")
                  => comments' = [comments EXCEPT ![req.id].text = trim(req.text)]
             /\ (permitted /\ req.op = "deleteComment")
                  => comments'[req.id] = NoComment]_vars

\* an admin or owner has been refused the update of a comment of another user
C17_Witness ==
  /\ resp.req.op = "updateComment"
  /\ resp.status = "Forbidden"
  /\ comments[resp.req.id] # NoComment
  /\ comments[resp.req.id].author # resp.req.actor
  /\ EffectiveRole(resp.req.actor, OrgOf(resp.req.actor)) \in {"admin", "owner"}

\* ------------------------------------------- member-only actions of a project
\* the project that a member-only request is about, 0 when its target is missing
ProjectOfRequest ==
  IF req.op \in {"updateTaskStatus", "getCommentsByTask", "createComment", "updateTask"}
    THEN IF tasks[req.id] = NoTask \/ boards[tasks[req.id].board] = NoBoard THEN 0
         ELSE boards[tasks[req.id].board].project
  ELSE IF req.op = "getTasksByBoard"
    THEN IF boards[req.id] = NoBoard THEN 0 ELSE boards[req.id].project
  ELSE IF req.op = "getBoardsByProject" THEN req.id
  ELSE 0

\* a member-only request: a move of a task to another board and nothing else,
\* an update of the status, a comment, a view of tasks, comments or boards,
\* from a user of the organization of the project
MemberOnlyRequest ==
  /\ req.op \in {"updateTaskStatus", "getCommentsByTask", "createComment", "updateTask",
                 "getTasksByBoard", "getBoardsByProject"}
  /\ req.op = "updateTask" => isOnlyBoardChange(req.id, req.body)
  /\ req.op = "createComment" => trim(req.text) # <<>>
  /\ users[req.actor] # NoUser
  /\ ProjectOfRequest \in ProjIds
  /\ projects[ProjectOfRequest] # NoProject
  /\ projects[ProjectOfRequest].organization = OrgOf(req.actor)

\* C18: every member-only action of a project is allowed to a user of the
\* organization of the project exactly when the user is in project.members, or
\* is project.createdBy, or has the role admin or owner in the organization
C18_SameMembershipEverywhere ==
  [][MemberOnlyRequest
       => (resp'.status = "ok"
             <=> \/ isProjectMember(ProjectOfRequest, req.actor)
                 \/ projects[ProjectOfRequest].createdBy = req.actor
                 \/ EffectiveRole(req.actor, OrgOf(req.actor)) \in {"admin", "owner"})]_vars

\* ------------------------------------------------ members of one organization
\* every member of a project is a user of the organization of the project, and
\* every member of a board a user of the organization of the project of the
\* board
MembersOfOwnOrganization ==
  /\ \A p \in ProjIds, u \in UserIds :
       (projects[p] # NoProject /\ projects[p].members[u] # "none" /\ users[u] # NoUser)
         => users[u].organization = projects[p].organization
  /\ \A b \in BoardIds :
       (boards[b] # NoBoard /\ projects[boards[b].project] # NoProject)
         => \A u \in boards[b].members :
              users[u] # NoUser
                => users[u].organization = projects[boards[b].project].organization

\* the resource that a request adds its target user to is of another
\* organization than that user
CrossTenantAdd ==
  /\ req.op \in {"assignProject", "addMember", "sendBoardInvite"}
  /\ users[req.userId] # NoUser
  /\ LET p == IF req.op = "sendBoardInvite"
                THEN (IF boards[req.id] = NoBoard THEN 0 ELSE boards[req.id].project)
              ELSE req.id
     IN /\ p \in ProjIds
        /\ projects[p] # NoProject
        /\ projects[p].organization # users[req.userId].organization

\* C19: whatever assignProject, addMember, updateBoard and sendBoardInvite
\* requests are served, the members of a project and of a board are users of
\* the organization of the project, and the addition of a user of another
\* organization is rejected
C19_MembersStayInOrganization ==
  [][/\ MembersOfOwnOrganization'
     /\ CrossTenantAdd => resp'.status # "ok"]_vars

\* ------------------------------------------------------------- assignees
\* the task that a createTask or updateTask request writes
WrittenTask == IF req.op = "createTask" THEN nextTask ELSE req.id

\* the project of the board of the task that the request writes, 0 when the
\* board or the task is missing
ProjectOfWrite ==
  LET b == IF req.op = "createTask" THEN req.body.board
           ELSE IF tasks[req.id] = NoTask THEN 0
           ELSE tasks[req.id].board
  IN IF b = 0 \/ boards[b] = NoBoard THEN 0 ELSE boards[b].project

\* user a is in the member list of project p
InMemberList(p, a) ==
  p \in ProjIds /\ projects[p] # NoProject /\ projects[p].members[a] # "none"

\* C20: the assignees that createTask and updateTask write on a task are, at
\* that moment, members of the project of the board of the task; a request
\* that names a user who is not is rejected and creates or changes no task;
\* the removal of a member from a project leaves the assignees of every task
\* as they are
C20_AssigneesAreProjectMembers ==
  [][/\ (req.op \in {"createTask", "updateTask"} /\ req.body.hasAssignedTo)
          => /\ (resp'.status = "ok" /\ tasks'[WrittenTask] # NoTask)
                  => /\ tasks'[WrittenTask].assignedTo = req.body.assignedTo
                     /\ \A a \in tasks'[WrittenTask].assignedTo :
                          InMemberList(boards[tasks'[WrittenTask].board].project, a)
             /\ (\E a \in req.body.assignedTo : ~InMemberList(ProjectOfWrite, a))
                  => /\ resp'.status # "ok"
                     /\ tasks' = tasks
     /\ req.op = "removeMember" => tasks' = tasks]_vars

\* a member has been removed from the project of a task that is assigned to
\* them, and is assigned still
C20_Witness ==
  /\ resp.req.op = "removeMember"
  /\ resp.status = "ok"
  /\ \E t \in TaskIds :
       /\ tasks[t] # NoTask
       /\ resp.req.userId \in tasks[t].assignedTo
       /\ boards[tasks[t].board].project = resp.req.id
       /\ ~InMemberList(resp.req.id, resp.req.userId)

\* a successful removal of a member is answered in this step
RemovalSucceeds == req.op = "removeMemberFromOrganization" /\ resp'.status = "ok"

\* an invitation record of organization o that names email e or user t
ReferencesMember(d, o, e, t) ==
  d # NoInv /\ d.organization = o /\ (d.invitedEmail = e \/ d.memberId = t)

ReferencesExist ==
  /\ \A t \in TaskIds : tasks[t] # NoTask => boards[tasks[t].board] # NoBoard
  /\ \A b \in BoardIds : boards[b] # NoBoard => projects[boards[b].project] # NoProject

\* a request of operation op is answered with success in this step
Succeeds(op) == req.op = op /\ resp'.status = "ok"

\* C22: after deleteBoard succeeds no task of the board remains, after
\* deleteProject succeeds no board of the project and no task of those boards
\* remains, so that at all times every task's board and every board's project
\* exist; deleteOrganization removes the organization record and nothing else
C22_DeletionCascades ==
  /\ [][/\ Succeeds("deleteBoard") =>
             \A t \in TaskIds : tasks'[t] # NoTask => tasks'[t].board # req.id
        /\ Succeeds("deleteProject") =>
             /\ projects'[req.id] = NoProject
             /\ \A b \in BoardIds : boards'[b] # NoBoard => boards'[b].project # req.id
             /\ \A t \in TaskIds :
                  tasks'[t] # NoTask => boards[tasks'[t].board].project # req.id
        /\ Succeeds("deleteOrganization") =>
             /\ ~orgs'[OrgOf(req.actor)].exists
             /\ \A o \in OrgIds \ {OrgOf(req.actor)} : orgs'[o] = orgs[o]
             /\ UNCHANGED <<users, invs, projects, boards, tasks, comments>>
       ]_vars
  /\ []ReferencesExist

\* the users of organization o whose stored role is owner
StoredOwners(o) ==
  {u \in UserIds : users[u] # NoUser /\ users[u].organization = o /\ users[u].role = "owner"}

\* C23: every organization has exactly one owner: organization.owner is an
\* existing user of the organization whose stored role is owner, and no other
\* user of the organization has the stored role owner
C23_ExactlyOneOwner ==
  \A o \in OrgIds : orgs[o].exists => StoredOwners(o) = {orgs[o].owner}

\* user u was saved by a registration that never marked its invitation: the
\* invitation of u's token is still invited and unexpired and no registration
\* of u is on its way to mark it
SavedButNotAccepted(u) ==
  /\ users[u] # NoUser /\ users[u].regToken # 0
  /\ \E i \in LiveInvByToken(users[u].regToken) :
        invs[i].organization = users[u].organization
  /\ \A p \in RegProcs : ~(reg[p].pc = "markAccepted" /\ reg[p].user = u)

\* u is the only user of its organization with an email that a registration
\* presents, so a registration answered "user exists" carried u's email
SoleRegistrant(u) ==
  \A v \in UserIds \ {u} :
    users[v] = NoUser \/ users[v].organization # users[u].organization
      \/ users[v].email \notin {toLowerCase(e) : e \in RegEmails}

\* the register call taken by slot p in this step is answered res at once
AnsweredAtOnce(p, res) == ~Busy(reg[p]) /\ reg'[p] # reg[p] /\ reg'[p].res = res

\* C24: when a registration has saved the user and failed before it marked
\* the invitation accepted, a registration with the same token and email is
\* not turned away as a duplicate: it goes on to succeed or is answered
\* InvalidOrExpiredInvitation, so the user does not stay beside an invitation
\* that is still invited
C24_RerunSucceedsOrInvalid ==
  [][\A u \in UserIds, p \in RegProcs :
        SavedButNotAccepted(u) /\ SoleRegistrant(u) => ~AnsweredAtOnce(p, "UserExists")
    ]_vars

\* the collections
persisted == <<orgs, users, invs, projects, boards, tasks, comments>>

\* a notification is handed to the push or mail service in this step
Dispatches == dispatch' # NoDispatch /\ dispatch' # dispatch

\* C25: the outcome of a mutation does not depend on the delivery of its
\* notification: whether the push or the mail is delivered or fails, the
\* collections and the answer are the same and the answer is a success; and a
\* notification is handed over only after the mutation has been persisted, that
\* is, when the handler has written and holds its answer
C25_NotificationIndependent ==
  /\ [][/\ Dispatches => UNCHANGED <<persisted, resp>>
        /\ (req.op = "sendBoardInvite" /\ resp' # NoResp /\ dispatch # NoDispatch)
             => /\ resp'.status = "ok"
                /\ boards' = [boards EXCEPT ![req.id].members = @ \cup {req.userId}]
       ]_vars
  /\ [](dispatch # NoDispatch => req = NoReq /\ resp.status \in {"ok", "none"})

\* the save of the document that call p is about to make collides with a
\* stored token
TokenCollision(p) ==
  \E j \in InvIds : invs[j] # NoInv /\ invs[j].invitationToken = nextTok

\* the save collides with a stored invitation of the same organization and
\* email
PairCollision(p) ==
  \E j \in InvIds : /\ invs[j] # NoInv
                    /\ invs[j].organization = inv[p].org
                    /\ invs[j].invitedEmail = inv[p].email

\* C26: the loop that creates an invitation makes at most three saves; it goes
\* round again only after a collision of tokens, a collision on the pair of
\* organization and email is raised at once, and the third collision is
\* answered Conflict with no invitation created
C26_RetryOnlyOnTokenCollision ==
  [][\A p \in InvProcs :
       (inv[p].pc = "create" /\ inv'[p] # inv[p]) =>
         /\ inv[p].retries < maxRetries
         /\ inv'[p].pc = "create" => TokenCollision(p) /\ inv'[p].retries = inv[p].retries + 1
         /\ (PairCollision(p) /\ ~TokenCollision(p)) =>
              inv'[p].pc = "done" /\ inv'[p].res # "ok" /\ invs' = invs
         /\ (inv[p].retries = maxRetries - 1 /\ TokenCollision(p)) =>
              inv'[p].pc = "done" /\ inv'[p].res = "Conflict" /\ invs' = invs
    ]_vars

\* C27: after any sequence of createProject, assignProject, addMember,
\* removeMember and updateMemberRole, the user who created a project is in its
\* member list with the project role admin
C27_CreatorIsProjectAdmin ==
  \A p \in ProjIds :
    projects[p] # NoProject => projects[p].members[projects[p].createdBy] = "admin"

\* a request to remove the creator of project 1 or to change the creator's
\* role has been refused, the creator has added a member, and the project
\* still lists its creator as admin
C27_Witness ==
  /\ resp.req.op \in {"removeMember", "updateMemberRole"}
  /\ resp.req.id = 1 /\ projects[1] # NoProject
  /\ resp.req.userId = projects[1].createdBy
  /\ resp.status = "Conflict"
  /\ \E m \in UserIds : projects[1].members[m] = "member"
  /\ projects[1].members[projects[1].createdBy] = "admin"

\* C28: a user created by a registration that carries an invitation token has
\* the email the invitation was issued for: a registration whose email differs
\* from the invitedEmail of its token's invitation is rejected at the lookup
\* and saves no user
C28_RegisteredEmailIsInvitedEmail ==
  [][\A p \in RegProcs :
       /\ (~Busy(reg[p]) /\ reg'[p].pc = "saveUser") =>
            \A i \in LiveInvByToken(reg'[p].token) : invs[i].invitedEmail = reg'[p].email
       /\ (reg[p].pc = "saveUser" /\ users' # users) =>
            \A i \in InvByToken(reg[p].token) : invs[i].invitedEmail = users'[nextUser].email
    ]_vars

\* board b is the board of an existing project other than project p, or no
\* board at all
OutsideProject(b, p) == boards[b] = NoBoard \/ boards[b].project # p

\* C29: a task never leaves its project: an updateTask that names another board
\* succeeds only if that board exists and belongs to the project of the task's
\* current board, otherwise it is rejected and the task stays on its board; so
\* the board of task 1, created under project 1, is a board of project 1
\* whenever it exists
C29_TaskStaysInProject ==
  /\ [][req.op = "updateTask" =>
          /\ resp'.status # "ok" => tasks' = tasks
          /\ \A t \in TaskIds :
               tasks'[t].board # tasks[t].board =>
                 /\ resp'.status = "ok" /\ t = req.id
                 /\ tasks'[t].board = req.body.board
                 /\ boards[tasks[t].board] # NoBoard
                 /\ ~OutsideProject(tasks'[t].board, boards[tasks[t].board].project)
       ]_vars
  /\ [](\A t \in TaskIds :
          (tasks[t] # NoTask /\ boards[tasks[t].board] # NoBoard)
            => boards[tasks[t].board].project = 1)

\* task 1 has been moved to board 2 of its project, and a request to move it
\* to board 3, a board of project 2 or a deleted board, has been rejected
C29_Witness ==
  /\ tasks[1].board = 2
  /\ resp.req.op = "updateTask" /\ resp.req.body.board = 3
  /\ resp.status \in {"BadRequest", "NotFound"}

\* C30: the stored status of an invitation changes only like this: a new
\* record is invited; invited becomes accepted only by a registration that
\* found the record invited and unexpired under the token it presented;
\* accepted, or invited and expired, becomes invited again by a recycling
\* invite.  No stored record is declined, and the memberId of an accepted
\* record is not overwritten by another registration
C30_StatusTransitions ==
  [][\A i \in InvIds :
       /\ invs'[i].status # "declined"
       /\ (invs[i] = NoInv /\ invs'[i] # NoInv) => invs'[i].status = "invited"
       /\ (invs[i].status = "invited" /\ invs'[i].status = "accepted") =>
            \E p \in RegProcs : /\ reg[p].pc = "markAccepted"
                                /\ reg[p].token = invs[i].invitationToken
                                /\ invs'[i].memberId = reg[p].user
       /\ (invs[i] # NoInv /\ invs'[i].status = "invited" /\ invs'[i] # invs[i]) =>
            /\ \E p \in InvProcs : inv[p].pc = "recycle" /\ inv[p].existing = i
            /\ invs[i].status = "accepted" \/ invs[i].tokenExpiresAt <= now
       /\ (invs[i].status = "accepted" /\ invs'[i].status = "accepted") =>
            invs'[i].memberId = invs[i].memberId
    ]_vars

====
